---- MODULE Spec2Model ----
(***************************************************************************)
(* LawCast backend: the recency cache (CacheService, shared-cache          *)
(* variant), the crawl scheduler (CrawlingService) and the batch executor  *)
(* with its shutdown coordination (BatchProcessingService).                *)
(*                                                                         *)
(* A notice is identified by its num alone, so a notice is modelled by its *)
(* num and a crawled list by a sequence of nums (duplicates allowed).      *)
(***************************************************************************)
EXTENDS Integers, Sequences, FiniteSets, TLC

\* ------------------------------------------------------------------ bounds
\* APP_CONSTANTS.CACHE.MAX_SIZE is 50 in the source; the model keeps the
\* algorithm and scales the size so that truncation happens on short lists.
MAX_SIZE == 2
\* notice nums range over 1..MaxNum
MaxNum == 3
\* longest crawled list
MaxCrawlLen == 3

\* most jobs of one batch
MaxJobs == 3
\* largest retryCount option (the source's default is 3)
MaxRetry == 1
\* batches held at one time
MaxBatches == 2
\* handleCron invocations in one run
MaxTicks == 2
\* longest list a crawl of the scheduler returns
MaxTickCrawl == 2
\* most jobs of a batch submitted while the service shuts down
MaxDirectJobs == 1
\* longest tail of a webhook URL string, in characters
MaxUrlLen == 4
\* POST /webhooks requests in flight at once
MaxRequests == 2
\* rows of the webhooks table when a notification batch starts
MaxHooks == 2
\* notices of one notification batch
MaxNotices == 2
\* how long a send to Discord may take, in thirds of a millisecond
MaxSendTime == 60
\* rows of the webhooks table when the daily cleanup runs
MaxRows == 4
\* the limit of active webhooks ("최대 100개의 웹훅만 등록할 수 있습니다"),
\* scaled down
ACTIVE_LIMIT == 2

\* sendNotifications: concurrency 5, batchSize 50 beyond 50 notices
TICK_CONCURRENCY == 5
LARGE_BATCH == 50
\* APP_CONSTANTS.BATCH.CONCURRENCY
BATCH_CONCURRENCY == 10
\* APP_CONSTANTS.DISCORD.API.RATE_LIMITS
\* intelligentWebhookCleanup: the ages in days of its two dated deletions and
\* the efficiencies below which the second and the third deletion run
CLEANUP_OLD_DAYS == 14
CLEANUP_RECENT_DAYS == 7
LOW_EFFICIENCY == 70
CRITICAL_EFFICIENCY == 50
\* getDetailedStats: the age in days beyond which an inactive row is old
STATS_OLD_DAYS == 30
GLOBAL_PER_SECOND == 30
PER_WEBHOOK_PER_MINUTE == 60
\* APP_CONSTANTS.DISCORD.API.ERROR_CODES, and Discord's "Unknown Webhook"
NOT_FOUND == 404
UNAUTHORIZED == 401
FORBIDDEN == 403
TOO_MANY_REQUESTS == 429
INTERNAL_SERVER_ERROR == 500
UNKNOWN_WEBHOOK == 10015

Nums == 1..MaxNum

\* every crawled list handed to the cache: sequences of nums, any order
CrawlLists == UNION {[1..n -> Nums] : n \in 0..MaxCrawlLen}

\* The value of a key of the store: Absent when the key is not in the store
\* (cacheManager.get returns undefined), Some(v) when it holds v.
Absent == <<>>
Some(v) == <<v>>
ValueOf(o) == o[1]

\* ------------------------------------------------------------ JS helpers
Range(s) == {s[i] : i \in 1..Len(s)}

\* Array.prototype.slice(0, n)
Take(s, n) == IF Len(s) <= n THEN s ELSE SubSeq(s, 1, n)

\* Array.prototype.filter(x => !set.has(x)), order kept
RECURSIVE FilterNotIn(_, _)
FilterNotIn(s, set) ==
    IF s = <<>> THEN <<>>
    ELSE IF Head(s) \in set THEN FilterNotIn(Tail(s), set)
         ELSE <<Head(s)>> \o FilterNotIn(Tail(s), set)

\* insertion of x into a descending list, after the elements equal to it
\* (Array.prototype.sort is stable)
RECURSIVE InsertDesc(_, _)
InsertDesc(x, s) ==
    IF s = <<>> THEN <<x>>
    ELSE IF Head(s) >= x THEN <<Head(s)>> \o InsertDesc(x, Tail(s))
         ELSE <<x>> \o s

\* [...a].sort((a, b) => b.num - a.num)
RECURSIVE SortDesc(_)
SortDesc(s) ==
    IF s = <<>> THEN <<>>
    ELSE InsertDesc(Head(s), SortDesc(Tail(s)))

\* ------------------------------------------------------------ CacheService
\* The store holds three keys; a store is a record of their values.
\* CacheInfo: {size, lastUpdated, maxSize, isInitialized}; lastUpdated is
\* either null or a date.
CacheInfoOf(size, init) ==
    [size |-> size, lastUpdated |-> "date", maxSize |-> MAX_SIZE,
     isInitialized |-> init]

DefaultInfo ==
    [size |-> 0, lastUpdated |-> "null", maxSize |-> MAX_SIZE,
     isInitialized |-> FALSE]

EmptyStore ==
    [recent_notices |-> Absent, new_notices_set |-> Absent,
     cache_info |-> Absent]

\* value || []
OrEmpty(o) == IF o = Absent THEN <<>> ELSE ValueOf(o)

\* existingNotices && existingNotices.length > 0
NonEmpty(o) == o # Absent /\ Len(ValueOf(o)) > 0

\* getCacheInfo: the stored info, or the default, which it also stores
GetCacheInfo(c) ==
    IF c.cache_info = Absent
    THEN [info |-> DefaultInfo,
          store |-> [c EXCEPT !.cache_info = Some(DefaultInfo)]]
    ELSE [info |-> ValueOf(c.cache_info), store |-> c]

\* updateCacheInfo
UpdateCacheInfo(c, info) == [c EXCEPT !.cache_info = Some(info)]

\* mutant of InitializeCache: the id list is not written
InitializeCacheWithoutIds(c, allNotices) ==
    LET existingNotices == c.recent_notices IN
    IF NonEmpty(existingNotices)
    THEN UpdateCacheInfo(c, CacheInfoOf(Len(ValueOf(existingNotices)), TRUE))
    ELSE LET limitedNotices == Take(SortDesc(allNotices), MAX_SIZE) IN
         [c EXCEPT !.recent_notices = Some(limitedNotices),
                   !.cache_info = Some(CacheInfoOf(Len(limitedNotices), TRUE))]

\* initializeCache(allNotices)
InitializeCache(c, allNotices) ==
    LET existingNotices == c.recent_notices IN
    IF NonEmpty(existingNotices)
    THEN UpdateCacheInfo(c, CacheInfoOf(Len(ValueOf(existingNotices)), TRUE))
    ELSE LET limitedNotices == Take(SortDesc(allNotices), MAX_SIZE) IN
         [recent_notices |-> Some(limitedNotices),
          new_notices_set |-> Some(limitedNotices),
          cache_info |-> Some(CacheInfoOf(Len(limitedNotices), TRUE))]

\* mutant of MergeNotices: the merged list is not cut
MergeNoticesUncut(actuallyNewNotices, existingNotices) ==
    SortDesc(actuallyNewNotices \o existingNotices)

\* the merge of updateCache: sort, truncate
MergeNotices(actuallyNewNotices, existingNotices) ==
    Take(SortDesc(actuallyNewNotices \o existingNotices), MAX_SIZE)

\* updateCache(newNotices)
UpdateCache(c, newNotices) ==
    LET g == GetCacheInfo(c) IN
    IF ~g.info.isInitialized
    THEN InitializeCache(g.store, newNotices)
    ELSE LET sortedNewNotices == SortDesc(newNotices)
             existingNotices == OrEmpty(g.store.recent_notices)
             existingNumsSet == Range(OrEmpty(g.store.new_notices_set))
             actuallyNewNotices == FilterNotIn(sortedNewNotices, existingNumsSet)
         IN IF Len(actuallyNewNotices) = 0
            THEN g.store
            ELSE LET finalNotices ==
                         MergeNotices(actuallyNewNotices, existingNotices)
                 IN [recent_notices |-> Some(finalNotices),
                     new_notices_set |-> Some(finalNotices),
                     cache_info |-> Some(CacheInfoOf(Len(finalNotices), TRUE))]

\* mutant of KnownNums: the id list is not consulted
KnownNumsOfNothing(c) == {}

\* the nums findNewNotices compares the crawl with when the info says
\* initialized: the stored id list
KnownNums(c) == Range(OrEmpty(c.new_notices_set))

\* mutant of FindNewNotices: with the info not marked initialized the whole
\* crawl is returned, stored notices or not
FindNewNoticesForgetsStored(c, crawledData) ==
    LET g == GetCacheInfo(c) IN
    IF ~g.info.isInitialized
    THEN [result |-> crawledData,
          store |-> IF NonEmpty(g.store.recent_notices)
                    THEN UpdateCacheInfo(g.store,
                             CacheInfoOf(Len(ValueOf(g.store.recent_notices)),
                                         TRUE))
                    ELSE g.store]
    ELSE [result |-> FilterNotIn(crawledData, Range(OrEmpty(g.store.new_notices_set))),
          store |-> g.store]

\* findNewNotices(crawledData): the new notices and the store it leaves
FindNewNotices(c, crawledData) ==
    LET g == GetCacheInfo(c) IN
    IF ~g.info.isInitialized
    THEN LET existingNotices == g.store.recent_notices IN
         IF NonEmpty(existingNotices)
         THEN [result |-> FilterNotIn(crawledData,
                                      Range(ValueOf(existingNotices))),
               store |-> UpdateCacheInfo(g.store,
                             CacheInfoOf(Len(ValueOf(existingNotices)), TRUE))]
         ELSE [result |-> crawledData, store |-> g.store]
    ELSE [result |-> FilterNotIn(crawledData, KnownNums(g.store)),
          store |-> g.store]

\* clearCache: the three keys deleted, then the reset info stored
ClearCache(c) == UpdateCacheInfo(EmptyStore, DefaultInfo)

\* -------------------------------------------------- BatchProcessingService
BatchIds == 1..MaxBatches
JobIndexes == 1..MaxJobs
Attempts == 1..(MaxRetry + 1)

\* BatchProcessingOptions; batchSize = 0 stands for "not given" (falsy)
OptionSets ==
    [concurrency : 1..MaxJobs, retryCount : 0..MaxRetry, batchSize : 0..MaxJobs]

\* chunkArray(array, chunkSize)
RECURSIVE ChunkArray(_, _)
ChunkArray(array, chunkSize) ==
    IF array = <<>> THEN <<>>
    ELSE IF Len(array) <= chunkSize THEN <<array>>
         ELSE <<SubSeq(array, 1, chunkSize)>>
              \o ChunkArray(SubSeq(array, chunkSize + 1, Len(array)), chunkSize)

\* executeBatch: the job slices it hands to processBatch one after the other
SlicesOf(n, batchSize) ==
    LET jobs == [i \in 1..n |-> i] IN
    IF batchSize # 0 /\ n > batchSize THEN ChunkArray(jobs, batchSize)
    ELSE <<jobs>>

\* BatchJobResult (duration left out); job is the index of the job whose
\* promise produced the result
NoResult == [success |-> FALSE, data |-> 0, error |-> "none", job |-> 0]

\* processBatch, the try branch: {success: true, data: result}
SuccessResult(i, value) ==
    [success |-> TRUE, data |-> value, error |-> "none", job |-> i]

\* mutant of FailureResult: the error is swallowed and the job reported done
FailureAsSuccess(i, error) ==
    [success |-> TRUE, data |-> 0, error |-> "none", job |-> i]

\* processBatch, the catch branch: {success: false, error}
FailureResult(i, error) ==
    [success |-> FALSE, data |-> 0, error |-> error, job |-> i]

\* One job of a batch.
\*   st        idle, running (an attempt races its timeout), delay (waiting
\*             retryDelay), settled
\*   attempt   the number of the current attempt
\*   timer     the timer of the current race or delay is still pending
\*   body      per attempt, where the job body started by that attempt is:
\*             none (not started, or ended), run (a plain job), findAll and
\*             send (a notification job). A body goes on after its attempt
\*             lost the race: Promise.race cancels nothing.
\*   ok        some attempt of the job won its race with a value
\*   errorOf   per attempt, the error its race was rejected with
IdleJob ==
    [st |-> "idle", attempt |-> 0, timer |-> FALSE,
     body |-> [a \in Attempts |-> "none"], lastError |-> "none",
     errorOf |-> [a \in Attempts |-> "none"],
     ok |-> FALSE, result |-> NoResult]

NoBatch ==
    [status |-> "none", kind |-> "none", n |-> 0,
     opts |-> [concurrency |-> 1, retryCount |-> 0, batchSize |-> 0],
     notices |-> <<>>, jobId |-> 0,
     slice |-> 0, chunk |-> 0, job |-> [i \in JobIndexes |-> IdleJob],
     settleOrder |-> <<>>, sliceResults |-> <<>>, results |-> <<>>]

\* the first await of a job body
FirstPhase(kind) == IF kind = "notification" THEN "findAll" ELSE "run"

\* executeJobWithRetry: an attempt starts, job() races createTimeoutPromise
StartAttempt(j, kind) ==
    [j EXCEPT !.st = "running", !.attempt = j.attempt + 1, !.timer = TRUE,
              !.body[j.attempt + 1] = FirstPhase(kind)]

\* the chunk of slice number s, chunk number c
ChunkAt(bt, s, c) ==
    ChunkArray(SlicesOf(bt.n, bt.opts.batchSize)[s], bt.opts.concurrency)[c]

NumSlices(bt) == Len(SlicesOf(bt.n, bt.opts.batchSize))
NumChunks(bt, s) ==
    Len(ChunkArray(SlicesOf(bt.n, bt.opts.batchSize)[s], bt.opts.concurrency))

\* processBatch: chunk.map(...) starts every job of the chunk
StartChunk(bt, s, c) ==
    [bt EXCEPT !.slice = s, !.chunk = c,
               !.job = [i \in JobIndexes |->
                          IF i \in Range(ChunkAt(bt, s, c))
                          THEN StartAttempt(bt.job[i], bt.kind)
                          ELSE bt.job[i]]]

\* executeBatch after the shutdown gate: a batch with nothing to run resolves
\* with no results, any other starts its first chunk
NewBatch(kind, n, opts, notices, jobId) ==
    LET bt == [NoBatch EXCEPT !.status = "running", !.kind = kind, !.n = n,
                              !.opts = opts, !.notices = notices,
                              !.jobId = jobId]
    IN IF n = 0 THEN [bt EXCEPT !.status = "resolved"]
       ELSE StartChunk(bt, 1, 1)

\* mutant of AttemptFailed: the error of the race is replaced by a generic one
AttemptFailedGeneric(bt, i, error) ==
    LET j == bt.job[i] IN
    IF j.attempt <= bt.opts.retryCount
    THEN [bt EXCEPT !.job[i].st = "delay", !.job[i].timer = TRUE,
                    !.job[i].lastError = "thrown",
                    !.job[i].errorOf[j.attempt] = "thrown"]
    ELSE [bt EXCEPT !.job[i].st = "settled", !.job[i].timer = FALSE,
                    !.job[i].lastError = "thrown",
                    !.job[i].errorOf[j.attempt] = "thrown",
                    !.job[i].result = FailureResult(i, "thrown"),
                    !.settleOrder = Append(bt.settleOrder, i)]

\* executeJobWithRetry, the catch branch: the attempt failed with error
AttemptFailed(bt, i, error) ==
    LET j == bt.job[i] IN
    IF j.attempt <= bt.opts.retryCount
    THEN [bt EXCEPT !.job[i].st = "delay", !.job[i].timer = TRUE,
                    !.job[i].lastError = error,
                    !.job[i].errorOf[j.attempt] = error]
    ELSE [bt EXCEPT !.job[i].st = "settled", !.job[i].timer = FALSE,
                    !.job[i].lastError = error,
                    !.job[i].errorOf[j.attempt] = error,
                    !.job[i].result = FailureResult(i, error),
                    !.settleOrder = Append(bt.settleOrder, i)]

\* mutant of AttemptSucceeded: the loop goes on after an attempt that won
AttemptSucceededThenRetries(bt, i, value) ==
    IF bt.job[i].attempt <= bt.opts.retryCount
    THEN [bt EXCEPT !.job[i].st = "delay", !.job[i].timer = TRUE,
                    !.job[i].ok = TRUE]
    ELSE [bt EXCEPT !.job[i].st = "settled", !.job[i].timer = FALSE,
                    !.job[i].ok = TRUE,
                    !.job[i].result = SuccessResult(i, value),
                    !.settleOrder = Append(bt.settleOrder, i)]

\* executeJobWithRetry returns the value of the attempt that won its race
AttemptSucceeded(bt, i, value) ==
    [bt EXCEPT !.job[i].st = "settled", !.job[i].timer = FALSE,
               !.job[i].ok = TRUE,
               !.job[i].result = SuccessResult(i, value),
               !.settleOrder = Append(bt.settleOrder, i)]

\* the elements of s that are in set, order kept
RECURSIVE SelectIn(_, _)
SelectIn(s, set) ==
    IF s = <<>> THEN <<>>
    ELSE IF Head(s) \in set THEN <<Head(s)>> \o SelectIn(Tail(s), set)
         ELSE SelectIn(Tail(s), set)

\* mutant of ChunkResults: each result pushed when its job settles
ChunkResultsAsSettled(bt, chunk) ==
    LET order == SelectIn(bt.settleOrder, Range(chunk)) IN
    [k \in 1..Len(order) |-> bt.job[order[k]].result]

\* Promise.allSettled(chunkPromises): the results in the order of the chunk
ChunkResults(bt, chunk) ==
    [k \in 1..Len(chunk) |-> bt.job[chunk[k]].result]

\* the current chunk has settled: its results are pushed, and the next chunk
\* of the slice, the next slice, or the end of executeBatch follows
AfterChunk(bt) ==
    LET chunk == ChunkAt(bt, bt.slice, bt.chunk)
        pushed == bt.sliceResults \o ChunkResults(bt, chunk)
    IN IF bt.chunk < NumChunks(bt, bt.slice)
       THEN StartChunk([bt EXCEPT !.sliceResults = pushed],
                       bt.slice, bt.chunk + 1)
       ELSE LET done == [bt EXCEPT !.sliceResults = <<>>,
                                   !.results = bt.results \o pushed]
            IN IF bt.slice < NumSlices(bt)
               THEN StartChunk(done, bt.slice + 1, 1)
               ELSE [done EXCEPT !.status = "resolved"]

\* ---------------------------------------------------------- webhook URLs
\* A URL string is "https://h" followed by a tail of characters (special),
\* or the tail alone, which has no scheme and which new URL() rejects. The
\* tail of a special string starts a path, a query or a fragment, so that
\* the host is h.
UrlChars == {"/", "a", "?", "#"}
Tails == UNION {[1..n -> UrlChars] : n \in 0..MaxUrlLen}
UrlStrings ==
    {[special |-> sp, tail |-> t] : sp \in BOOLEAN, t \in Tails}
        \ {u \in [special : {TRUE}, tail : Tails] :
               u.tail # <<>> /\ u.tail[1] = "a"}

\* the position of the first character of s that is in set, Len(s) + 1 if
\* there is none
RECURSIVE FirstOf(_, _, _)
FirstOf(s, set, from) ==
    IF from > Len(s) THEN Len(s) + 1
    ELSE IF s[from] \in set THEN from
         ELSE FirstOf(s, set, from + 1)

\* new URL(url).pathname of a special string: the tail up to the query or
\* the fragment, "/" when that is empty
Pathname(tail) ==
    LET path == SubSeq(tail, 1, FirstOf(tail, {"?", "#"}, 1) - 1)
    IN IF path = <<>> THEN <<"/">> ELSE path

\* if (normalizedPath.endsWith('/') && normalizedPath.length > 1) slice(0, -1)
StripSlash(path) ==
    IF path[Len(path)] = "/" /\ Len(path) > 1
    THEN SubSeq(path, 1, Len(path) - 1)
    ELSE path

\* normalizeWebhookUrl(url): protocol//host + the stripped path, the input
\* itself when new URL() throws
NormalizeWebhookUrl(url) ==
    IF url.special
    THEN [special |-> TRUE, tail |-> StripSlash(Pathname(url.tail))]
    ELSE url

\* ------------------------------------------------------------------ state
VARIABLES
    cache,          \* the shared cache: recent_notices, new_notices_set, cache_info
    lastCall,       \* the last CacheService call: its name, argument and
                    \* result, and the store it was made on
    batches,        \* the batches whose promise is held, and the state of their jobs
    jobQueue,       \* BatchProcessingService.jobQueue: job id -> batch
    isShuttingDown, \* BatchProcessingService.isShuttingDown
    lastJobId,      \* the Date.now() of the last generated job id
    lastSubmit,     \* the last executeBatch / processNotificationBatch call
    shutdown,       \* the gracefulShutdown call and what forceShutdown did
    isInitialized,  \* CrawlingService.isInitialized
    isProcessing,   \* CrawlingService.isProcessing
    startup,        \* where onModuleInit is
    tick,           \* the handleCron invocations
    webhooks,       \* the rows of the webhooks table, row i has id i
    permanentlyFailedWebhooks, \* NotificationService.permanentlyFailedWebhooks
    rateLimit,      \* rate_limit:global and rate_limit:webhook:<id> in the shared cache
    now,            \* Date.now()
    deliv,          \* the notice jobs of the tick's notification batch
    reg,            \* the POST /webhooks requests
    sends,          \* the successful deliveries: job, webhook id, time of the send
    observed,       \* what the batch did to the webhooks: deactivations, failures;
                    \* the nums published upstream when the process started
    urlCall,        \* a normalizeWebhookUrl call, and the call on its result
    cleanup,        \* the intelligentWebhookCleanup run
    errorCall       \* an error thrown by a send, and how it was classified

cacheVars == <<cache, lastCall>>
batchVars == <<batches, jobQueue, isShuttingDown, lastJobId, lastSubmit>>
crawlVars == <<isInitialized, isProcessing, startup, tick>>
hookVars == <<webhooks, permanentlyFailedWebhooks, rateLimit, now, deliv, reg,
              sends, observed, cleanup, errorCall>>
vars == <<cache, lastCall, batches, jobQueue, isShuttingDown, lastJobId,
          lastSubmit, shutdown, isInitialized, isProcessing, startup, tick,
          hookVars, urlCall>>

NoSubmit == [op |-> "none", outcome |-> "none", batch |-> 0]

\* gracefulShutdown not called yet.
\*   pc             idle, waiting (in the race of waitForAllBatchJobs and the
\*                  shutdown timer), returned, failed (rejected with the
\*                  timeout error)
\*   timer          the shutdown timer is pending
\*   waitingFor     the batches whose promises waitForAllBatchJobs collected
\*   inFlightAtCall the batches that were running when it was called
\*   tableAtEnd     the job ids in jobQueue when it returned or failed
\*   ceiling        the shutdown timer fired before the batches were through
\*   forced         forceShutdown was called
NoShutdown ==
    [pc |-> "idle", timer |-> FALSE, waitingFor |-> {}, inFlightAtCall |-> {},
     tableAtEnd |-> {}, ceiling |-> FALSE, forced |-> FALSE]

\* BatchProcessingService after construction
InitBatchService ==
    /\ batches = [b \in BatchIds |-> NoBatch]
    /\ jobQueue = <<>>
    /\ isShuttingDown = FALSE
    /\ lastJobId = 0
    /\ lastSubmit = NoSubmit
    /\ shutdown = NoShutdown

TickIds == 1..MaxTicks

\* One handleCron invocation.
\*   pc         idle (not fired), crawling, waiting (for its batch), done
\*   outcome    how it ended: skipped, empty, crawl failed, no new, rejected
\*              (processNotificationBatch threw), sent
\*   crawled    what palCrawl.get returned
\*   batch      while it waits, the batch it submitted; 0 otherwise
\*   idsAtStart while it runs, the nums that were in new_notices_set when it
\*              fired
IdleTick ==
    [pc |-> "idle", outcome |-> "none", crawled |-> <<>>, batch |-> 0,
     idsAtStart |-> {}]

\* CrawlingService after construction
InitCrawlingService ==
    /\ isInitialized = FALSE
    /\ isProcessing = FALSE
    /\ startup = "constructed"
    /\ tick = [t \in TickIds |-> IdleTick]

NoCall == [op |-> "none", arg |-> <<>>, result |-> <<>>, before |-> EmptyStore]

\* What a starting process may find in the shared cache: nothing, or what an
\* earlier run left. An earlier run leaves the notices sorted by descending
\* num, each num once, and truncated, with the id list equal to them; the
\* info may be missing or not marked initialized (the restart case
\* findNewNotices handles).
SortedLists ==
    {s \in CrawlLists :
        /\ Len(s) <= MAX_SIZE
        /\ \A i \in 1..(Len(s) - 1) : s[i] > s[i + 1]}

PersistedStores ==
    {EmptyStore, ClearCache(EmptyStore)}
    \cup {[recent_notices |-> Some(s), new_notices_set |-> Some(s),
           cache_info |-> i] :
            s \in SortedLists \ {<<>>},
            i \in {Absent, Some(DefaultInfo)}}
    \cup {[recent_notices |-> Some(s), new_notices_set |-> Some(s),
           cache_info |-> Some(CacheInfoOf(Len(s), TRUE))] : s \in SortedLists}

\* --------------------------------------------- webhooks: idle values
\* a row of the webhooks table
Row(url, isActive) == [url |-> url, isActive |-> isActive]

\* the ids of the rows, and of the active rows (find({where: {isActive: true}}))
RowIds == 1..Len(webhooks)
ActiveIds == {w \in RowIds : webhooks[w].isActive}

\* findOne({where: {url}}): the id of the row with that url, 0 for null
FindOneByUrl(url) ==
    IF \E w \in RowIds : webhooks[w].url = url
    THEN CHOOSE w \in RowIds : webhooks[w].url = url
    ELSE 0

\* a special URL string with the given tail
Https(tail) == [special |-> TRUE, tail |-> tail]

Requests == 1..MaxRequests

\* A POST /webhooks request.
\*   pc       idle, findByUrl, test (testWebhook), findOne, saveUpdate and
\*            saveNew (the awaits of WebhookService.create)
\*   found    the row create found
\*   tested   testWebhook returned success for this request
\*   outcome  of the last request handled in this slot
IdleRequest ==
    [pc |-> "idle", url |-> Https(<<>>), found |-> 0, tested |-> FALSE,
     outcome |-> "none"]

NothingObserved == [removed |-> {}, permanent |-> {}, upstream |-> {}]

HookIds == 1..MaxHooks
Notices == 1..MaxNotices

\* Time is counted in thirds of a millisecond, so that 1000 / 30 ms is a
\* whole number of units.
Ms(n) == 3 * n
GlobalInterval == Ms(1000) \div GLOBAL_PER_SECOND
WebhookInterval == Ms(60 * 1000) \div PER_WEBHOOK_PER_MINUTE
\* Date.now() when the service starts: far from 0
StartTime == 2 * WebhookInterval

\* cacheManager.get(key) of a key never set gives undefined, read as 0
NoStamps == [global |-> 0, hook |-> [w \in HookIds |-> 0]]

\* A notice job of executeNotificationBatch.
\*   pc        idle, findAll, rlGlobal and rlHook (the reads of
\*             waitForRateLimit), sleep, send, setGlobal and setHook (the
\*             writes of updateRateLimitTimestamp), rmFind and rmSave
\*             (webhookService.remove), done
\*   list, k   currentWebhooks (ids) and the position of the send loop
\*   t0        Date.now() taken by waitForRateLimit or updateRateLimitTimestamp
\*   results   of sendDiscordNotificationBatch
\*   rm        the position in permanentFailureIds
IdleDelivery ==
    [pc |-> "idle", list |-> <<>>, k |-> 0, t0 |-> 0, lastGlobal |-> 0,
     wakeAt |-> 0, sentAt |-> 0, results |-> <<>>, rm |-> 0]

\* no error thrown
NoErrorCall ==
    [pc |-> "none", error |-> <<>>, category |-> "", shouldDelete |-> FALSE]

\* The daily cleanup.
\*   pc       idle, stats (getDetailedStats awaited), old, recent and all (the
\*            three deletions), final (the closing getDetailedStats), done
\*   stats    what getDetailedStats returned at the start
\*   before   the table when the cleanup started
\*   ids      the ids a cleanupOldInactiveWebhooks run in steps selected
NoStats == [total |-> 0, active |-> 0, inactive |-> 0, oldInactive |-> 0]
IdleCleanup == [pc |-> "idle", stats |-> NoStats, before |-> <<>>, ids |-> {}]

\* the services around the webhooks table after construction, the table
\* holding rows
InitHookServices(rows) ==
    /\ cleanup = IdleCleanup
    /\ errorCall = NoErrorCall
    /\ webhooks = rows
    /\ permanentlyFailedWebhooks = {}
    /\ rateLimit = NoStamps
    /\ now = StartTime
    /\ deliv = [j \in Notices |-> IdleDelivery]
    /\ reg = [r \in Requests |-> IdleRequest]
    /\ sends = {}
    /\ observed = NothingObserved
NoUrlCall == [pc |-> "none", input |-> Https(<<>>), once |-> Https(<<>>),
              twice |-> Https(<<>>)]
\* ---------------------------------------------------- the cache on its own
InitCache ==
    /\ cache \in PersistedStores
    /\ lastCall = NoCall
    /\ InitBatchService
    /\ InitCrawlingService
    /\ InitHookServices(<<>>)
    /\ urlCall = NoUrlCall

CallInitializeCache(x) ==
    /\ cache' = InitializeCache(cache, x)
    /\ lastCall' = [op |-> "initializeCache", arg |-> x, result |-> <<>>,
                    before |-> cache]
    /\ UNCHANGED <<hookVars, urlCall, batchVars, shutdown, crawlVars>>

CallUpdateCache(x) ==
    /\ cache' = UpdateCache(cache, x)
    /\ lastCall' = [op |-> "updateCache", arg |-> x, result |-> <<>>,
                    before |-> cache]
    /\ UNCHANGED <<hookVars, urlCall, batchVars, shutdown, crawlVars>>

CallFindNewNotices(x) ==
    /\ cache' = FindNewNotices(cache, x).store
    /\ lastCall' = [op |-> "findNewNotices", arg |-> x,
                    result |-> FindNewNotices(cache, x).result,
                    before |-> cache]
    /\ UNCHANGED <<hookVars, urlCall, batchVars, shutdown, crawlVars>>

CallClearCache ==
    /\ cache' = ClearCache(cache)
    /\ lastCall' = [op |-> "clearCache", arg |-> <<>>, result |-> <<>>,
                    before |-> cache]
    /\ UNCHANGED <<hookVars, urlCall, batchVars, shutdown, crawlVars>>

NextCache ==
    \/ \E x \in CrawlLists : CallInitializeCache(x)
    \/ \E x \in CrawlLists : CallUpdateCache(x)
    \/ \E x \in CrawlLists : CallFindNewNotices(x)
    \/ CallClearCache

SpecCache == InitCache /\ [][NextCache]_vars

\* ------------------------------------------------------ the batch executor
\* mutant of ShutdownGate: the check of the flag left out
GateLeftOpen == FALSE

\* if (this.isShuttingDown) throw ..., the first statement of executeBatch
\* and of processNotificationBatch
ShutdownGate == isShuttingDown

\* executeBatch(jobs, options), called directly with n plain jobs
ExecuteBatchCall(b, n, opts) ==
    /\ batches[b].status = "none"
    /\ IF ShutdownGate
       THEN /\ lastSubmit' = [op |-> "executeBatch", batch |-> 0,
                  outcome |-> "Service is shutting down, cannot process new jobs"]
            /\ UNCHANGED batches
       ELSE /\ batches' = [batches EXCEPT ![b] = NewBatch("plain", n, opts, <<>>, 0)]
            /\ lastSubmit' = [op |-> "executeBatch", batch |-> b,
                              outcome |-> "started"]
    /\ UNCHANGED <<hookVars, urlCall, jobQueue, isShuttingDown, lastJobId, cacheVars, shutdown,
                   crawlVars>>

\* the body started by attempt a of job i is at one of the given awaits
BodyAt(b, i, a, phases) ==
    /\ batches[b].status = "running"
    /\ i \in 1..batches[b].n
    /\ batches[b].job[i].body[a] \in phases

\* attempt a is the one whose race is still open
RaceOpen(b, i, a) ==
    /\ batches[b].job[i].st = "running"
    /\ batches[b].job[i].attempt = a

\* the batch once the body started by attempt a of job i has ended
Ended(b, i, a) == [batches[b] EXCEPT !.job[i].body[a] = "none"]

\* A job body that ends settles the race of its attempt if that race is
\* still open; the outcome of a body whose attempt timed out is dropped.
\* A plain job resolves with its value (job i returns i); a notification job
\* returns its summary once sendDiscordNotificationBatch is through.
BodyReturns(b, i, a) ==
    /\ BodyAt(b, i, a, {"run", "send"})
    /\ batches' = [batches EXCEPT ![b] =
                      IF RaceOpen(b, i, a)
                      THEN AttemptSucceeded(Ended(b, i, a), i, i)
                      ELSE Ended(b, i, a)]
    /\ UNCHANGED <<hookVars, urlCall, jobQueue, isShuttingDown, lastJobId, lastSubmit, cacheVars,
                   shutdown, crawlVars>>

\* a plain job rejects
BodyThrows(b, i, a) ==
    /\ BodyAt(b, i, a, {"run"})
    /\ batches' = [batches EXCEPT ![b] =
                      IF RaceOpen(b, i, a)
                      THEN AttemptFailed(Ended(b, i, a), i, "thrown")
                      ELSE Ended(b, i, a)]
    /\ UNCHANGED <<hookVars, urlCall, jobQueue, isShuttingDown, lastJobId, lastSubmit, cacheVars,
                   shutdown, crawlVars>>

\* createTimeoutPromise: the timer of the running attempt fires and rejects
\* the race; the job body goes on
TimeoutDue(b, i) ==
    /\ batches[b].status = "running"
    /\ batches[b].job[i].st = "running"
    /\ batches[b].job[i].timer

TimeoutFires(b, i) ==
    /\ TimeoutDue(b, i)
    /\ batches' = [batches EXCEPT ![b] = AttemptFailed(batches[b], i, "timed out")]
    /\ UNCHANGED <<hookVars, urlCall, jobQueue, isShuttingDown, lastJobId, lastSubmit, cacheVars,
                   shutdown, crawlVars>>

\* delay(retryDelay) resolves: the next attempt starts
DelayDue(b, i) ==
    /\ batches[b].status = "running"
    /\ batches[b].job[i].st = "delay"
    /\ batches[b].job[i].timer

DelayElapses(b, i) ==
    /\ DelayDue(b, i)
    /\ batches' = [batches EXCEPT ![b].job[i] =
                      StartAttempt(batches[b].job[i], batches[b].kind)]
    /\ UNCHANGED <<hookVars, urlCall, jobQueue, isShuttingDown, lastJobId, lastSubmit, cacheVars,
                   shutdown, crawlVars>>

\* every promise of the current chunk has settled
ChunkDone(bt) ==
    \A i \in Range(ChunkAt(bt, bt.slice, bt.chunk)) : bt.job[i].st = "settled"

\* jobQueue.delete(jobId)
QueueDelete(q, id) == [k \in DOMAIN q \ {id} |-> q[k]]

\* Promise.allSettled(chunkPromises) resumes processBatch; when executeBatch
\* returns from a notification batch, its finally handler deletes the entry
\* of its job id
ChunkResumable(b) ==
    /\ batches[b].status = "running"
    /\ ChunkDone(batches[b])

ChunkSettled(b) ==
    /\ ChunkResumable(b)
    /\ batches' = [batches EXCEPT ![b] = AfterChunk(batches[b])]
    /\ jobQueue' = IF /\ AfterChunk(batches[b]).status = "resolved"
                      /\ batches[b].kind = "notification"
                   THEN QueueDelete(jobQueue, batches[b].jobId)
                   ELSE jobQueue
    /\ UNCHANGED <<hookVars, urlCall, isShuttingDown, lastJobId, lastSubmit, cacheVars,
                   shutdown, crawlVars>>

\* --------------------------------------------- the executor on its own
InitBatch ==
    /\ cache = EmptyStore
    /\ lastCall = NoCall
    /\ InitBatchService
    /\ InitCrawlingService
    /\ InitHookServices(<<>>)
    /\ urlCall = NoUrlCall

NextBatch ==
    \/ \E n \in 0..MaxJobs, opts \in OptionSets : ExecuteBatchCall(1, n, opts)
    \/ \E i \in JobIndexes, a \in Attempts : BodyReturns(1, i, a)
    \/ \E i \in JobIndexes, a \in Attempts : BodyThrows(1, i, a)
    \/ \E i \in JobIndexes : TimeoutFires(1, i)
    \/ \E i \in JobIndexes : DelayElapses(1, i)
    \/ ChunkSettled(1)

SpecBatch == InitBatch /\ [][NextBatch]_vars

\* the event loop has a step of batch b to take: a timer that is due, or a
\* settled chunk whose processBatch resumes
CanProgress(b) ==
    \/ \E i \in JobIndexes : TimeoutDue(b, i)
    \/ \E i \in JobIndexes : DelayDue(b, i)
    \/ ChunkResumable(b)

\* ------------------------------------------------- notification batches
\* jobQueue.set(jobId, batchPromise)
QueueSet(q, id, b) ==
    [k \in DOMAIN q \cup {id} |-> IF k = id THEN b ELSE q[k]]

\* Array.from(this.jobQueue.values())
QueueValues(q) == {q[k] : k \in DOMAIN q}

\* the lowest batch not started yet
HasFreeBatch == \E b \in BatchIds : batches[b].status = "none"
FreeBatch ==
    CHOOSE b \in BatchIds :
        /\ batches[b].status = "none"
        /\ \A c \in BatchIds : batches[c].status = "none" => b <= c

\* processNotificationBatch past the gate: executeNotificationBatch starts
\* the first chunk of the notice jobs, the promise goes into jobQueue under
\* notification_batch_<Date.now()>
SubmitNotificationBatch(notices, opts, jobId) ==
    /\ batches' = [batches EXCEPT ![FreeBatch] =
                      NewBatch("notification", Len(notices), opts, notices,
                               jobId)]
    /\ jobQueue' = QueueSet(jobQueue, jobId, FreeBatch)
    /\ lastJobId' = jobId
    /\ lastSubmit' = [op |-> "processNotificationBatch", batch |-> FreeBatch,
                      outcome |-> "started"]

\* processNotificationBatch at the closed gate: it throws
RejectNotificationBatch ==
    /\ lastSubmit' =
           [op |-> "processNotificationBatch", batch |-> 0,
            outcome |-> "Service is shutting down, cannot process new notifications"]
    /\ UNCHANGED <<batches, jobQueue, lastJobId>>

\* A notification job: webhookService.findAll() resolves. With no active
\* webhook the job returns its summary at once, otherwise it goes on to
\* sendDiscordNotificationBatch.
FindAllReturns(b, i, a, hooks) ==
    /\ BodyAt(b, i, a, {"findAll"})
    /\ batches' = [batches EXCEPT ![b] =
                      IF hooks
                      THEN [batches[b] EXCEPT !.job[i].body[a] = "send"]
                      ELSE IF RaceOpen(b, i, a)
                           THEN AttemptSucceeded(Ended(b, i, a), i, i)
                           ELSE Ended(b, i, a)]
    /\ UNCHANGED <<hookVars, urlCall, jobQueue, isShuttingDown, lastJobId, lastSubmit, cacheVars,
                   shutdown, crawlVars>>

\* the jobs of a batch with a body that has not ended
BodiesInFlight(bt) ==
    {i \in 1..bt.n : \E a \in Attempts : bt.job[i].body[a] # "none"}

\* ------------------------------------------------------------- shutdown
\* the batches whose executeBatch has not resolved
RunningBatches == {b \in BatchIds : batches[b].status = "running"}

\* clearAllTimeouts: every pending timer of a race or a delay is cancelled
ClearAllTimeouts(bs) ==
    [b \in BatchIds |->
        [bs[b] EXCEPT !.job = [i \in JobIndexes |->
                                  [bs[b].job[i] EXCEPT !.timer = FALSE]]]]

\* gracefulShutdown up to its first await
GracefulShutdownCall ==
    /\ shutdown.pc = "idle"
    /\ isShuttingDown' = TRUE
    /\ IF DOMAIN jobQueue = {}
       THEN /\ batches' = ClearAllTimeouts(batches)
            /\ shutdown' = [shutdown EXCEPT !.pc = "returned", !.timer = FALSE,
                                            !.inFlightAtCall = RunningBatches,
                                            !.tableAtEnd = {}]
       ELSE /\ shutdown' = [shutdown EXCEPT !.pc = "waiting", !.timer = TRUE,
                                            !.waitingFor = QueueValues(jobQueue),
                                            !.inFlightAtCall = RunningBatches]
            /\ UNCHANGED batches
    /\ UNCHANGED <<hookVars, urlCall, jobQueue, lastJobId, lastSubmit, cacheVars, crawlVars>>

\* waitForAllBatchJobs wins the race: the try block ends, finally runs
ShutdownJobsDone ==
    /\ shutdown.pc = "waiting"
    /\ \A b \in shutdown.waitingFor : batches[b].status # "running"
    /\ batches' = ClearAllTimeouts(batches)
    /\ shutdown' = [shutdown EXCEPT !.pc = "returned", !.timer = FALSE,
                                    !.tableAtEnd = DOMAIN jobQueue]
    /\ UNCHANGED <<hookVars, urlCall, jobQueue, isShuttingDown, lastJobId, lastSubmit, cacheVars,
                   crawlVars>>

\* createShutdownTimeoutPromise rejects after shutdownTimeout: the catch
\* block logs and rethrows, finally runs
ShutdownTimeoutFires ==
    /\ shutdown.pc = "waiting"
    /\ shutdown.timer
    /\ \E b \in shutdown.waitingFor : batches[b].status = "running"
    /\ batches' = ClearAllTimeouts(batches)
    /\ shutdown' = [shutdown EXCEPT !.pc = "failed", !.timer = FALSE,
                                    !.ceiling = TRUE,
                                    !.tableAtEnd = DOMAIN jobQueue]
    /\ UNCHANGED <<hookVars, urlCall, jobQueue, isShuttingDown, lastJobId, lastSubmit, cacheVars,
                   crawlVars>>

\* forceShutdown
ForceShutdownCall ==
    /\ ~shutdown.forced
    /\ isShuttingDown' = TRUE
    /\ batches' = ClearAllTimeouts(batches)
    /\ jobQueue' = <<>>
    /\ shutdown' = [shutdown EXCEPT !.forced = TRUE, !.timer = FALSE]
    /\ UNCHANGED <<hookVars, urlCall, lastJobId, lastSubmit, cacheVars, crawlVars>>

\* ------------------------------------------------------ crawl scheduler
\* the lists palCrawl.get returns in a run of the scheduler
TickCrawls == {x \in CrawlLists : Len(x) <= MaxTickCrawl}

\* the options sendNotifications passes: concurrency 5, retryCount 3 (scaled
\* to MaxRetry), batchSize 50 for more than 50 notices
TickOptions(notices) ==
    [concurrency |-> TICK_CONCURRENCY, retryCount |-> MaxRetry,
     batchSize |-> IF Len(notices) > LARGE_BATCH THEN LARGE_BATCH ELSE 0]

\* the options of a direct executeBatch(jobs) call: the defaults
DefaultOptions ==
    [concurrency |-> BATCH_CONCURRENCY, retryCount |-> MaxRetry, batchSize |-> 0]

\* the nums in the id list of the store
IdSet(c) == Range(OrEmpty(c.new_notices_set))

\* onModuleInit up to the await of palCrawl.get in initializeCache
OnModuleInitCall ==
    /\ startup = "constructed"
    /\ startup' = "crawling"
    /\ isInitialized' = FALSE
    /\ UNCHANGED <<hookVars, urlCall, isProcessing, tick, cacheVars, batchVars, shutdown>>

\* the crawl of initializeCache returns x: an empty list is left alone, any
\* other goes to updateCache; onModuleInit then sets isInitialized
InitCrawlReturns(x) ==
    /\ startup = "crawling"
    /\ cache' = IF x = <<>> THEN cache ELSE UpdateCache(cache, x)
    /\ isInitialized' = TRUE
    /\ startup' = "done"
    /\ UNCHANGED <<hookVars, urlCall, lastCall, isProcessing, tick, batchVars, shutdown>>

\* the crawl of initializeCache throws: onModuleInit sets isInitialized
\* and rethrows
InitCrawlThrows ==
    /\ startup = "crawling"
    /\ isInitialized' = TRUE
    /\ startup' = "failed"
    /\ UNCHANGED <<hookVars, urlCall, isProcessing, tick, cacheVars, batchVars, shutdown>>

\* mutant of HandleCronSkips: the isProcessing check left out
SkipsOnlyUninitialized == ~isInitialized

\* handleCron returns at once: not initialized, or a tick is running
HandleCronSkips == ~isInitialized \/ isProcessing

\* handleCron is called (ticks fire in the order of their numbers)
TickFires(t) ==
    /\ tick[t].pc = "idle"
    /\ t > 1 => tick[t - 1].pc # "idle"
    /\ IF HandleCronSkips
       THEN /\ tick' = [tick EXCEPT ![t].pc = "done", ![t].outcome = "skipped"]
            /\ UNCHANGED isProcessing
       ELSE /\ isProcessing' = TRUE
            /\ tick' = [tick EXCEPT ![t].pc = "crawling",
                                    ![t].idsAtStart = IdSet(cache)]
    /\ UNCHANGED <<hookVars, urlCall, isInitialized, startup, cacheVars, batchVars, shutdown>>

\* handleCron ends: the finally block
TickEnds(t, outcome, crawled) ==
    /\ tick' = [tick EXCEPT ![t] = [IdleTick EXCEPT !.pc = "done",
                                                    !.outcome = outcome,
                                                    !.crawled = crawled]]
    /\ isProcessing' = FALSE

\* palCrawl.get returns x in performCrawlingAndNotification: findNewNotices,
\* then sendNotifications up to waitForBatchJob, or updateCache at once.
\* Ticks are a cron period apart, so Date.now() gives each batch a new id.
TickCrawlReturns(t, x) ==
    /\ tick[t].pc = "crawling"
    /\ LET f == FindNewNotices(cache, x) IN
       IF x = <<>>
       THEN /\ TickEnds(t, "empty", x)
            /\ UNCHANGED <<cache, batchVars>>
       ELSE IF f.result = <<>>
       THEN /\ cache' = UpdateCache(f.store, x)
            /\ TickEnds(t, "no new", x)
            /\ UNCHANGED batchVars
       ELSE IF ShutdownGate
       THEN /\ cache' = UpdateCache(f.store, x)
            /\ RejectNotificationBatch
            /\ TickEnds(t, "rejected", x)
       ELSE /\ HasFreeBatch
            /\ cache' = f.store
            /\ SubmitNotificationBatch(f.result, TickOptions(f.result),
                                       lastJobId + 1)
            /\ tick' = [tick EXCEPT ![t].pc = "waiting", ![t].crawled = x,
                                    ![t].batch = FreeBatch]
            /\ UNCHANGED isProcessing
    /\ UNCHANGED <<hookVars, urlCall, lastCall, isShuttingDown, shutdown, isInitialized, startup>>

\* palCrawl.get throws: handleCron logs the error
TickCrawlThrows(t) ==
    /\ tick[t].pc = "crawling"
    /\ TickEnds(t, "crawl failed", <<>>)
    /\ UNCHANGED <<hookVars, urlCall, cacheVars, batchVars, shutdown, isInitialized, startup>>

\* waitForBatchJob resumes sendNotifications: updateCache(crawledData).
\* Nothing holds the promise of the batch any more: it is dropped.
TickBatchDone(t) ==
    /\ tick[t].pc = "waiting"
    /\ batches[tick[t].batch].status = "resolved"
    /\ cache' = UpdateCache(cache, tick[t].crawled)
    /\ batches' = [batches EXCEPT ![tick[t].batch] = NoBatch]
    /\ TickEnds(t, "sent", tick[t].crawled)
    /\ UNCHANGED <<hookVars, urlCall, lastCall, jobQueue, isShuttingDown, lastJobId, lastSubmit,
                   shutdown, isInitialized, startup>>

\* ------------------------------------- the scheduler and its batches
Init ==
    /\ cache \in PersistedStores
    /\ lastCall = NoCall
    /\ InitBatchService
    /\ InitCrawlingService
    /\ InitHookServices(<<>>)
    /\ urlCall = NoUrlCall

Next ==
    \/ OnModuleInitCall
    \/ \E x \in TickCrawls : InitCrawlReturns(x)
    \/ InitCrawlThrows
    \/ \E t \in TickIds : TickFires(t)
    \/ \E t \in TickIds, x \in TickCrawls : TickCrawlReturns(t, x)
    \/ \E t \in TickIds : TickCrawlThrows(t)
    \/ \E t \in TickIds : TickBatchDone(t)
    \/ \E b \in BatchIds, i \in JobIndexes, a \in Attempts, hooks \in BOOLEAN :
           FindAllReturns(b, i, a, hooks)
    \/ \E b \in BatchIds, i \in JobIndexes, a \in Attempts : BodyReturns(b, i, a)
    \/ \E b \in BatchIds, i \in JobIndexes : TimeoutFires(b, i)
    \/ \E b \in BatchIds, i \in JobIndexes : DelayElapses(b, i)
    \/ \E b \in BatchIds : ChunkSettled(b)

Spec == Init /\ [][Next]_vars

\* ------------------------------------------------ a cold start
\* The process starts on an empty cache while the notices of
\* observed.upstream are published. The crawl of initializeCache returns
\* them, or no data, or throws; the crawls of the ticks return any list.
\* No webhook is registered and no job runs into its timeout.

\* the lists a crawl returns when the notices of nums are published
ListsOf(nums) ==
    {x \in TickCrawls : Range(x) = nums /\ Len(x) = Cardinality(nums)}

InitColdStart ==
    /\ cache = EmptyStore
    /\ lastCall = NoCall
    /\ InitBatchService
    /\ InitCrawlingService
    /\ urlCall = NoUrlCall
    /\ webhooks = <<>>
    /\ permanentlyFailedWebhooks = {}
    /\ rateLimit = NoStamps
    /\ now = StartTime
    /\ deliv = [j \in Notices |-> IdleDelivery]
    /\ reg = [r \in Requests |-> IdleRequest]
    /\ sends = {}
    /\ cleanup = IdleCleanup
    /\ errorCall = NoErrorCall
    /\ \E nums \in SUBSET Nums :
           /\ Cardinality(nums) <= MaxTickCrawl
           /\ observed = [NothingObserved EXCEPT !.upstream = nums]

NextColdStart ==
    \/ OnModuleInitCall
    \/ \E x \in ListsOf(observed.upstream) \cup {<<>>} : InitCrawlReturns(x)
    \/ InitCrawlThrows
    \/ \E t \in TickIds : TickFires(t)
    \/ \E t \in TickIds, x \in TickCrawls : TickCrawlReturns(t, x)
    \/ \E t \in TickIds : TickCrawlThrows(t)
    \/ \E t \in TickIds : TickBatchDone(t)
    \/ \E b \in BatchIds, i \in JobIndexes : FindAllReturns(b, i, 1, FALSE)
    \/ \E b \in BatchIds : ChunkSettled(b)

SpecColdStart == InitColdStart /\ [][NextColdStart]_vars

\* ------------------------------------------ the process is bounced
\* The module is destroyed while no tick runs: CacheService.onModuleDestroy
\* awaits clearCache (an error is logged). The call records the store it
\* found. One bounce is followed.
OnModuleDestroy ==
    /\ lastCall.op = "none"
    /\ startup \in {"done", "failed"}
    /\ ~isProcessing
    /\ cache' = ClearCache(cache)
    /\ lastCall' = [op |-> "onModuleDestroy", arg |-> <<>>, result |-> <<>>,
                    before |-> cache]
    /\ startup' = "destroyed"
    /\ UNCHANGED <<hookVars, urlCall, batchVars, shutdown, isInitialized,
                   isProcessing, tick>>

\* A new process is started on the same shared cache: the services are
\* constructed again. The handleCron invocations that were made stay on
\* record.
ProcessStarts ==
    /\ startup = "destroyed"
    /\ startup' = "constructed"
    /\ isInitialized' = FALSE
    /\ isProcessing' = FALSE
    /\ batches' = [b \in BatchIds |-> NoBatch]
    /\ jobQueue' = <<>>
    /\ isShuttingDown' = FALSE
    /\ lastSubmit' = NoSubmit
    /\ shutdown' = NoShutdown
    /\ UNCHANGED <<hookVars, urlCall, cacheVars, lastJobId, tick>>

\* The scheduler with no webhook registered and no job running into its
\* timeout, and the process bounced.
\* the process runs: its timers and promises are alive
ProcessRuns == startup # "destroyed"

\* the scheduler calls handleCron in a running process
CronCallsHandleCron(t) == ProcessRuns /\ TickFires(t)

NextRestart ==
    \/ OnModuleInitCall
    \/ \E x \in TickCrawls : InitCrawlReturns(x)
    \/ InitCrawlThrows
    \/ \E t \in TickIds : CronCallsHandleCron(t)
    \/ \E t \in TickIds, x \in TickCrawls : TickCrawlReturns(t, x)
    \/ \E t \in TickIds : TickCrawlThrows(t)
    \/ \E t \in TickIds : TickBatchDone(t)
    \/ \E b \in BatchIds, i \in JobIndexes : FindAllReturns(b, i, 1, FALSE)
    \/ \E b \in BatchIds : ChunkSettled(b)
    \/ OnModuleDestroy
    \/ ProcessStarts

SpecRestart == Init /\ [][NextRestart]_vars

\* ------------------------------------- the executor and its shutdown
\* what Date.now() returns for the id of a batch: the millisecond of the
\* last id, or a later one
NewJobIds == IF lastJobId = 0 THEN {1} ELSE {lastJobId, lastJobId + 1}

\* processNotificationBatch(notices), called directly
ProcessNotificationBatchCall(n, jobId) ==
    /\ IF ShutdownGate
       THEN RejectNotificationBatch
       ELSE /\ HasFreeBatch
            /\ SubmitNotificationBatch([k \in 1..n |-> k], DefaultOptions, jobId)
    /\ UNCHANGED <<hookVars, urlCall, isShuttingDown, cacheVars, shutdown, crawlVars>>

InitShutdown ==
    /\ cache = EmptyStore
    /\ lastCall = NoCall
    /\ InitBatchService
    /\ InitCrawlingService
    /\ InitHookServices(<<>>)
    /\ urlCall = NoUrlCall

NextShutdown ==
    \/ \E n \in 1..MaxDirectJobs :
           HasFreeBatch /\ ExecuteBatchCall(FreeBatch, n, DefaultOptions)
    \/ \E n \in 1..MaxDirectJobs, jobId \in NewJobIds :
           ProcessNotificationBatchCall(n, jobId)
    \/ \E b \in BatchIds, i \in JobIndexes, a \in Attempts, hooks \in BOOLEAN :
           FindAllReturns(b, i, a, hooks)
    \/ \E b \in BatchIds, i \in JobIndexes, a \in Attempts : BodyReturns(b, i, a)
    \/ \E b \in BatchIds, i \in JobIndexes, a \in Attempts : BodyThrows(b, i, a)
    \/ \E b \in BatchIds, i \in JobIndexes : TimeoutFires(b, i)
    \/ \E b \in BatchIds, i \in JobIndexes : DelayElapses(b, i)
    \/ \E b \in BatchIds : ChunkSettled(b)
    \/ GracefulShutdownCall
    \/ ShutdownJobsDone
    \/ ShutdownTimeoutFires
    \/ ForceShutdownCall

SpecShutdown == InitShutdown /\ [][NextShutdown]_vars

\* --------------------------------- the scheduler while the service shuts down
\* The scheduler with no webhook registered and no job running into its
\* timeout, and gracefulShutdown called at any moment.
NextTickShutdown ==
    \/ OnModuleInitCall
    \/ \E x \in TickCrawls : InitCrawlReturns(x)
    \/ InitCrawlThrows
    \/ \E t \in TickIds : TickFires(t)
    \/ \E t \in TickIds, x \in TickCrawls : TickCrawlReturns(t, x)
    \/ \E t \in TickIds : TickCrawlThrows(t)
    \/ \E t \in TickIds : TickBatchDone(t)
    \/ \E b \in BatchIds, i \in JobIndexes : FindAllReturns(b, i, 1, FALSE)
    \/ \E b \in BatchIds : ChunkSettled(b)
    \/ GracefulShutdownCall
    \/ ShutdownJobsDone
    \/ ShutdownTimeoutFires

SpecTickShutdown == Init /\ [][NextTickShutdown]_vars

\* ------------------------------- the scheduler, timeouts and shutdown
\* The scheduler with no webhook registered, jobs that may run into their
\* timeout and be retried, and gracefulShutdown or forceShutdown called at
\* any moment.
\* the crawls of this run: at most one notice
ShortCrawls == {x \in TickCrawls : Len(x) <= 1}

NextTickRetry ==
    \/ OnModuleInitCall
    \/ \E x \in ShortCrawls : InitCrawlReturns(x)
    \/ InitCrawlThrows
    \/ \E t \in TickIds : TickFires(t)
    \/ \E t \in TickIds, x \in ShortCrawls : TickCrawlReturns(t, x)
    \/ \E t \in TickIds : TickCrawlThrows(t)
    \/ \E t \in TickIds : TickBatchDone(t)
    \/ \E b \in BatchIds, i \in JobIndexes, a \in Attempts :
           FindAllReturns(b, i, a, FALSE)
    \/ \E b \in BatchIds, i \in JobIndexes : TimeoutFires(b, i)
    \/ \E b \in BatchIds, i \in JobIndexes : DelayElapses(b, i)
    \/ \E b \in BatchIds : ChunkSettled(b)
    \/ GracefulShutdownCall
    \/ ShutdownJobsDone
    \/ ShutdownTimeoutFires
    \/ ForceShutdownCall

\* What the event loop guarantees: a crawl that was started settles, a
\* pending findAll resolves, a timer of delay() that is due fires, and the
\* continuation of a settled promise runs. Nothing is assumed about the
\* calls from outside (the cron, the shutdown hooks), nor about the job
\* timeout winning its race.
TickRetryFairness ==
    /\ \A t \in TickIds :
           /\ WF_vars(\E x \in ShortCrawls : TickCrawlReturns(t, x))
           /\ WF_vars(TickBatchDone(t))
    /\ \A b \in BatchIds :
           /\ WF_vars(ChunkSettled(b))
           /\ \A i \in JobIndexes :
                  /\ WF_vars(DelayElapses(b, i))
                  /\ \A a \in Attempts : WF_vars(FindAllReturns(b, i, a, FALSE))

SpecTickRetry == Init /\ [][NextTickRetry]_vars /\ TickRetryFairness

\* ------------------------------------------------------------ deliveries
\* What a failed discordWebhook.send throws: error.response?.status, and
\* what /(\d{3}) status code/ and /"code":\s*(\d+)/ find in error.message;
\* 0 stands for a field that is absent or a pattern that does not match.
DeliveryError(status, msgStatus, msgCode) ==
    [status |-> status, msgStatus |-> msgStatus, msgCode |-> msgCode]

\* a network error or an error with no status and no code
PlainError == DeliveryError(0, 0, 0)

DeliveryErrors ==
    {DeliveryError(NOT_FOUND, 0, 0), DeliveryError(TOO_MANY_REQUESTS, 0, 0),
     DeliveryError(INTERNAL_SERVER_ERROR, 0, 0),
     DeliveryError(0, FORBIDDEN, 0), DeliveryError(0, UNAUTHORIZED, 0),
     DeliveryError(0, TOO_MANY_REQUESTS, 0),
     DeliveryError(0, 0, UNKNOWN_WEBHOOK), DeliveryError(0, 0, 50027),
     PlainError}

\* mutant of ShouldDeleteWebhook: every error with an HTTP status is permanent
ShouldDeleteAnyStatus(error) ==
    error.status # 0 \/ error.msgStatus # 0 \/ error.msgCode = UNKNOWN_WEBHOOK

\* shouldDeleteWebhook(error)
ShouldDeleteWebhook(error) ==
    IF error.status # 0
    THEN error.status \in {NOT_FOUND, UNAUTHORIZED, FORBIDDEN}
    ELSE IF error.msgStatus # 0
         THEN \/ error.msgStatus = NOT_FOUND
              \/ error.msgStatus = UNAUTHORIZED
              \/ error.msgStatus = FORBIDDEN
         ELSE IF error.msgCode # 0
              THEN error.msgCode \in {UNKNOWN_WEBHOOK}
              ELSE FALSE

\* an element of the results of sendDiscordNotificationBatch
DeliveryResult(webhookId, success, shouldDelete) ==
    [webhookId |-> webhookId, success |-> success, shouldDelete |-> shouldDelete]

Max(a, b) == IF a >= b THEN a ELSE b

\* the ids of a set in ascending order, as find() returns the rows
RECURSIVE Ascending(_)
Ascending(ids) ==
    IF ids = {} THEN <<>>
    ELSE LET m == CHOOSE x \in ids : \A y \in ids : x <= y
         IN <<m>> \o Ascending(ids \ {m})

\* permanentFailures.map(result => result.webhookId)
RECURSIVE PermanentFailureIds(_)
PermanentFailureIds(results) ==
    IF results = <<>> THEN <<>>
    ELSE IF ~Head(results).success /\ Head(results).shouldDelete
         THEN <<Head(results).webhookId>> \o PermanentFailureIds(Tail(results))
         ELSE PermanentFailureIds(Tail(results))

\* the notice job after sendDiscordNotificationBatch has returned: it awaits
\* remove of the first permanent failure, or returns its summary
AfterSendLoop(d) ==
    IF PermanentFailureIds(d.results) # <<>>
    THEN [d EXCEPT !.pc = "rmFind", !.rm = 1, !.t0 = 0, !.sentAt = 0]
    ELSE [d EXCEPT !.pc = "done", !.t0 = 0, !.sentAt = 0]

\* The head of the send loop at time t, the set of flagged webhooks being
\* failed: a flagged webhook gets its result at once, for any other
\* waitForRateLimit takes Date.now() and awaits the global timestamp.
RECURSIVE SendLoop(_, _, _)
SendLoop(d, failed, t) ==
    IF d.k > Len(d.list) THEN AfterSendLoop(d)
    ELSE IF d.list[d.k] \in failed
         THEN SendLoop([d EXCEPT !.k = d.k + 1,
                                 !.results = Append(d.results,
                                     DeliveryResult(d.list[d.k], FALSE, TRUE))],
                       failed, t)
         ELSE [d EXCEPT !.pc = "rlGlobal", !.t0 = t, !.sentAt = 0]

\* waitForRateLimit: the longer of the two waits
WaitTime(t, lastGlobalSend, lastWebhookSend) ==
    Max(Max(0, GlobalInterval - (t - lastGlobalSend)),
        Max(0, WebhookInterval - (t - lastWebhookSend)))

\* ------------------------------------------- normalizeWebhookUrl on its own
otherVars == <<cacheVars, batchVars, shutdown, crawlVars, cleanup, errorCall>>

InitUrl ==
    /\ cache = EmptyStore
    /\ lastCall = NoCall
    /\ InitBatchService
    /\ InitCrawlingService
    /\ InitHookServices(<<>>)
    /\ urlCall \in {[NoUrlCall EXCEPT !.input = u] : u \in UrlStrings}

\* normalizeWebhookUrl(input)
NormalizeCall ==
    /\ urlCall.pc = "none"
    /\ urlCall' = [urlCall EXCEPT !.pc = "once",
                                  !.once = NormalizeWebhookUrl(urlCall.input)]
    /\ UNCHANGED <<otherVars, hookVars>>

\* normalizeWebhookUrl of the result of the call before
NormalizeAgain ==
    /\ urlCall.pc = "once"
    /\ urlCall' = [urlCall EXCEPT !.pc = "twice",
                                  !.twice = NormalizeWebhookUrl(urlCall.once)]
    /\ UNCHANGED <<otherVars, hookVars>>

NextUrl == NormalizeCall \/ NormalizeAgain

SpecUrl == InitUrl /\ [][NextUrl]_vars

\* ------------------------------------------------------- POST /webhooks
\* the URLs posted: three canonical forms, one of them written three ways
RegUrls ==
    {Https(<<"/", "a">>), Https(<<"/", "a", "/">>), Https(<<"/", "a", "?", "a">>),
     Https(<<"/", "a", "a">>), Https(<<"/", "a", "/", "a">>)}

\* createWebhook: the URL is well-formed and the reCAPTCHA token valid (a
\* request failing either changes nothing); findByUrl is called
RequestArrives(r, url) ==
    /\ reg[r].pc = "idle"
    /\ reg' = [reg EXCEPT ![r] = [IdleRequest EXCEPT !.pc = "findByUrl",
                                                     !.url = url,
                                                     !.outcome = reg[r].outcome]]
    /\ UNCHANGED <<otherVars, urlCall, webhooks, permanentlyFailedWebhooks,
                   rateLimit, now, deliv, sends, observed>>

\* the request has ended with outcome
RequestEnded(q, outcome) == [IdleRequest EXCEPT !.outcome = outcome]

\* createWebhook throws before it reads the table: validateDiscordWebhookUrl
\* throws, or verifyToken returns false
RequestRefused(r, why) ==
    /\ reg[r].pc = "idle"
    /\ reg' = [reg EXCEPT ![r] = RequestEnded(reg[r], why)]
    /\ UNCHANGED <<otherVars, urlCall, webhooks, permanentlyFailedWebhooks,
                   rateLimit, now, deliv, sends, observed>>

\* findByUrl(url): the active row with the normalized URL
FindByUrl(url) ==
    LET w == FindOneByUrl(NormalizeWebhookUrl(url))
    IN IF w # 0 /\ webhooks[w].isActive THEN w ELSE 0

\* createWebhook after findByUrl: an active duplicate is rejected, otherwise
\* the webhook is tested
FindByUrlReturns(r) ==
    /\ reg[r].pc = "findByUrl"
    /\ reg' = [reg EXCEPT ![r] =
                  IF FindByUrl(reg[r].url) # 0
                  THEN RequestEnded(reg[r], "duplicate")
                  ELSE [reg[r] EXCEPT !.pc = "test"]]
    /\ UNCHANGED <<otherVars, urlCall, webhooks, permanentlyFailedWebhooks,
                   rateLimit, now, deliv, sends, observed>>

\* mutant of TestReturns: the result of the test is not looked at
TestReturnsUnchecked(r, success) ==
    /\ reg[r].pc = "test"
    /\ reg' = [reg EXCEPT ![r] = [reg[r] EXCEPT !.pc = "findOne",
                                                !.tested = success]]
    /\ UNCHANGED <<otherVars, urlCall, webhooks, permanentlyFailedWebhooks,
                   rateLimit, now, deliv, sends, observed>>

\* createWebhook after testWebhook: a failed test is rejected, otherwise
\* webhookService.create is called and awaits its findOne
TestReturns(r, success) ==
    /\ reg[r].pc = "test"
    /\ reg' = [reg EXCEPT ![r] =
                  IF success
                  THEN [reg[r] EXCEPT !.pc = "findOne", !.tested = TRUE]
                  ELSE RequestEnded(reg[r], "test failed")]
    /\ UNCHANGED <<otherVars, urlCall, webhooks, permanentlyFailedWebhooks,
                   rateLimit, now, deliv, sends, observed>>

\* mutant of AfterFindOne: a soft-deleted row is returned as it is
AfterFindOneNoRestore(q, existing) ==
    IF existing # 0
    THEN RequestEnded(q, "existing")
    ELSE [q EXCEPT !.pc = "saveNew"]

\* create after findOne({where: {url: normalizedUrl}}): a soft-deleted row
\* is restored, an active one returned, otherwise a row is created
AfterFindOne(q, existing) ==
    IF existing # 0
    THEN IF ~webhooks[existing].isActive
         THEN [q EXCEPT !.pc = "saveUpdate", !.found = existing]
         ELSE RequestEnded(q, "existing")
    ELSE [q EXCEPT !.pc = "saveNew"]

CreateFindOneReturns(r) ==
    /\ reg[r].pc = "findOne"
    /\ reg' = [reg EXCEPT ![r] =
                  AfterFindOne(reg[r],
                               FindOneByUrl(NormalizeWebhookUrl(reg[r].url)))]
    /\ UNCHANGED <<otherVars, urlCall, webhooks, permanentlyFailedWebhooks,
                   rateLimit, now, deliv, sends, observed>>

\* save(existingWebhook) with isActive = true
SaveUpdateReturns(r) ==
    /\ reg[r].pc = "saveUpdate"
    /\ webhooks' = [webhooks EXCEPT ![reg[r].found].isActive = TRUE]
    /\ reg' = [reg EXCEPT ![r] = RequestEnded(reg[r], "restored")]
    /\ UNCHANGED <<otherVars, urlCall, permanentlyFailedWebhooks, rateLimit,
                   now, deliv, sends, observed>>

\* the webhooks table: url is unique, isActive defaults to true. An insert
\* of a url some row holds is refused.
InsertRow(rows, url) ==
    IF \E w \in 1..Len(rows) : rows[w].url = url
    THEN rows
    ELSE Append(rows, Row(url, TRUE))

\* save(webhook) of a new row; when the table refuses it the request fails
SaveNewReturns(r) ==
    LET url == NormalizeWebhookUrl(reg[r].url) IN
    /\ reg[r].pc = "saveNew"
    /\ webhooks' = InsertRow(webhooks, url)
    /\ reg' = [reg EXCEPT ![r] =
                  IF InsertRow(webhooks, url) = webhooks
                  THEN RequestEnded(reg[r], "failed")
                  ELSE RequestEnded(reg[r], "created")]
    /\ UNCHANGED <<otherVars, urlCall, permanentlyFailedWebhooks, rateLimit,
                   now, deliv, sends, observed>>

\* the tables the service may start with: no row, or one row
StoredTables ==
    {<<>>} \cup {<<Row(NormalizeWebhookUrl(u), a)>> : u \in RegUrls, a \in BOOLEAN}

InitRegister ==
    /\ cache = EmptyStore
    /\ lastCall = NoCall
    /\ InitBatchService
    /\ InitCrawlingService
    /\ \E rows \in StoredTables : InitHookServices(rows)
    /\ urlCall = NoUrlCall

\* why createWebhook throws before it reads the table
Refusals == {"invalid url", "recaptcha failed"}

NextRegister ==
    \/ \E r \in Requests, u \in RegUrls : RequestArrives(r, u)
    \/ \E r \in Requests, why \in Refusals : RequestRefused(r, why)
    \/ \E r \in Requests : FindByUrlReturns(r)
    \/ \E r \in Requests, success \in BOOLEAN : TestReturns(r, success)
    \/ \E r \in Requests : CreateFindOneReturns(r)
    \/ \E r \in Requests : SaveUpdateReturns(r)
    \/ \E r \in Requests : SaveNewReturns(r)

SpecRegister == InitRegister /\ [][NextRegister]_vars

\* ------------------------------------------- the notification batch
\* the webhook the send loop of job j is at
HookAt(j) == deliv[j].list[deliv[j].k]

\* executeNotificationBatch(notices): the notice jobs, one chunk of at most
\* `concurrency` jobs, are started and each awaits webhookService.findAll()
StartNotificationJobs(n) ==
    /\ \A j \in Notices : deliv[j].pc = "idle"
    /\ deliv' = [j \in Notices |->
                    IF j <= n THEN [IdleDelivery EXCEPT !.pc = "findAll"]
                    ELSE IdleDelivery]
    /\ UNCHANGED <<otherVars, urlCall, webhooks, permanentlyFailedWebhooks,
                   rateLimit, now, reg, sends, observed>>

\* findAll() resolves: with no active webhook the job returns, otherwise
\* sendDiscordNotificationBatch starts its loop
FindAllResolves(j) ==
    /\ deliv[j].pc = "findAll"
    /\ deliv' = [deliv EXCEPT ![j] =
                    IF ActiveIds = {}
                    THEN [deliv[j] EXCEPT !.pc = "done"]
                    ELSE SendLoop([deliv[j] EXCEPT !.list = Ascending(ActiveIds),
                                                   !.k = 1],
                                  permanentlyFailedWebhooks, now)]
    /\ UNCHANGED <<otherVars, urlCall, webhooks, permanentlyFailedWebhooks,
                   rateLimit, now, reg, sends, observed>>

\* waitForRateLimit: getGlobalLastSendTime() resolves
GlobalStampRead(j) ==
    /\ deliv[j].pc = "rlGlobal"
    /\ deliv' = [deliv EXCEPT ![j].pc = "rlHook",
                              ![j].lastGlobal = rateLimit.global]
    /\ UNCHANGED <<otherVars, urlCall, webhooks, permanentlyFailedWebhooks,
                   rateLimit, now, reg, sends, observed>>

\* waitForRateLimit: getWebhookLastSendTime() resolves; the job sleeps
\* waitTime, or with nothing to wait for calls discordWebhook.send
WebhookStampRead(j) ==
    LET waitTime == WaitTime(deliv[j].t0, deliv[j].lastGlobal,
                             rateLimit.hook[HookAt(j)])
    IN /\ deliv[j].pc = "rlHook"
       /\ deliv' = [deliv EXCEPT ![j] =
                       IF waitTime > 0
                       THEN [deliv[j] EXCEPT !.pc = "sleep", !.lastGlobal = 0,
                                             !.t0 = 0,
                                             !.wakeAt = now + waitTime]
                       ELSE [deliv[j] EXCEPT !.pc = "send", !.lastGlobal = 0,
                                             !.t0 = 0, !.sentAt = now]]
       /\ UNCHANGED <<otherVars, urlCall, webhooks, permanentlyFailedWebhooks,
                      rateLimit, now, reg, sends, observed>>

\* the timer of waitForRateLimit fires, not before waitTime has passed;
\* discordWebhook.send is called
SleepEnds(j) ==
    /\ deliv[j].pc = "sleep"
    /\ now' = Max(now, deliv[j].wakeAt)
    /\ deliv' = [deliv EXCEPT ![j].pc = "send", ![j].wakeAt = 0,
                              ![j].sentAt = Max(now, deliv[j].wakeAt)]
    /\ UNCHANGED <<otherVars, urlCall, webhooks, permanentlyFailedWebhooks,
                   rateLimit, reg, sends, observed>>

\* discordWebhook.send resolves after duration: updateRateLimitTimestamp
\* takes Date.now() and awaits the write of the global timestamp
SendSucceeds(j, duration) ==
    /\ deliv[j].pc = "send"
    /\ now' = Max(now, deliv[j].sentAt + duration)
    /\ deliv' = [deliv EXCEPT ![j].pc = "setGlobal",
                              ![j].t0 = Max(now, deliv[j].sentAt + duration)]
    /\ sends' = sends \cup {<<j, HookAt(j), deliv[j].sentAt>>}
    /\ UNCHANGED <<otherVars, urlCall, webhooks, permanentlyFailedWebhooks,
                   rateLimit, reg, observed>>

\* the HTTP status an error carries, in error.response or in its message
HttpStatusOf(error) ==
    IF error.status # 0 THEN error.status ELSE error.msgStatus

\* the failures a webhook is to survive: HTTP 429, errors without an HTTP
\* status (network errors) and any other error that is neither a 4xx nor
\* Discord's code for an unknown webhook
Transient(error) ==
    /\ error.msgCode # UNKNOWN_WEBHOOK
    /\ \/ HttpStatusOf(error) = TOO_MANY_REQUESTS
       \/ HttpStatusOf(error) = 0
       \/ HttpStatusOf(error) >= INTERNAL_SERVER_ERROR

\* mutant of SendFails: the time of a failed send is recorded as well
SendFailsRecordsTime(j, duration, error) ==
    LET t == Max(now, deliv[j].sentAt + duration)
        failed == IF ShouldDeleteWebhook(error)
                  THEN permanentlyFailedWebhooks \cup {HookAt(j)}
                  ELSE permanentlyFailedWebhooks
    IN /\ deliv[j].pc = "send"
       /\ now' = t
       /\ permanentlyFailedWebhooks' = failed
       /\ deliv' = [deliv EXCEPT ![j] =
              SendLoop([deliv[j] EXCEPT
                            !.k = deliv[j].k + 1,
                            !.results = Append(deliv[j].results,
                                DeliveryResult(HookAt(j), FALSE,
                                               ShouldDeleteWebhook(error)))],
                       failed, t)]
       /\ observed' = IF Transient(error) THEN observed
                      ELSE [observed EXCEPT !.permanent = @ \cup {HookAt(j)}]
       /\ rateLimit' = [rateLimit EXCEPT !.global = t, !.hook[HookAt(j)] = t]
       /\ UNCHANGED <<otherVars, urlCall, webhooks, reg, sends>>

\* discordWebhook.send rejects after duration: the catch block classifies
\* the error, flags a permanent failure, pushes the result, and the loop
\* goes on
SendFails(j, duration, error) ==
    LET t == Max(now, deliv[j].sentAt + duration)
        failed == IF ShouldDeleteWebhook(error)
                  THEN permanentlyFailedWebhooks \cup {HookAt(j)}
                  ELSE permanentlyFailedWebhooks
    IN /\ deliv[j].pc = "send"
       /\ now' = t
       /\ permanentlyFailedWebhooks' = failed
       /\ deliv' = [deliv EXCEPT ![j] =
              SendLoop([deliv[j] EXCEPT
                            !.k = deliv[j].k + 1,
                            !.results = Append(deliv[j].results,
                                DeliveryResult(HookAt(j), FALSE,
                                               ShouldDeleteWebhook(error)))],
                       failed, t)]
       /\ observed' = IF Transient(error) THEN observed
                      ELSE [observed EXCEPT !.permanent = @ \cup {HookAt(j)}]
       /\ UNCHANGED <<otherVars, urlCall, webhooks, rateLimit, reg, sends>>

\* updateRateLimitTimestamp: set(rate_limit:global, now) resolves
GlobalStampWritten(j) ==
    /\ deliv[j].pc = "setGlobal"
    /\ rateLimit' = [rateLimit EXCEPT !.global = deliv[j].t0]
    /\ deliv' = [deliv EXCEPT ![j].pc = "setHook"]
    /\ UNCHANGED <<otherVars, urlCall, webhooks, permanentlyFailedWebhooks,
                   now, reg, sends, observed>>

\* updateRateLimitTimestamp: set(rate_limit:webhook:<id>, now) resolves; the
\* flag of the webhook is dropped, the result pushed, and the loop goes on
WebhookStampWritten(j) ==
    LET failed == permanentlyFailedWebhooks \ {HookAt(j)} IN
    /\ deliv[j].pc = "setHook"
    /\ rateLimit' = [rateLimit EXCEPT !.hook[HookAt(j)] = deliv[j].t0]
    /\ permanentlyFailedWebhooks' = failed
    /\ deliv' = [deliv EXCEPT ![j] =
           SendLoop([deliv[j] EXCEPT
                         !.k = deliv[j].k + 1,
                         !.results = Append(deliv[j].results,
                             DeliveryResult(HookAt(j), TRUE, FALSE))],
                    failed, now)]
    /\ UNCHANGED <<otherVars, urlCall, webhooks, now, reg, sends, observed>>

\* the webhook the job is deactivating
RemovedAt(j) == PermanentFailureIds(deliv[j].results)[deliv[j].rm]

\* the job after remove(webhookId) has resolved or thrown
AfterRemove(d) ==
    IF d.rm < Len(PermanentFailureIds(d.results))
    THEN [d EXCEPT !.pc = "rmFind", !.rm = d.rm + 1]
    ELSE [d EXCEPT !.pc = "done", !.rm = 0]

\* remove(id): findOne(id) resolves with the row
RemoveFindOneResolves(j) ==
    /\ deliv[j].pc = "rmFind"
    /\ deliv' = [deliv EXCEPT ![j].pc = "rmSave"]
    /\ UNCHANGED <<otherVars, urlCall, webhooks, permanentlyFailedWebhooks,
                   rateLimit, now, reg, sends, observed>>

\* remove(id): save(webhook) with isActive = false resolves and the flag of
\* the webhook is cleared, or save throws and the catch block logs it
RemoveSaveResolves(j, saved) ==
    /\ deliv[j].pc = "rmSave"
    /\ IF saved
       THEN /\ webhooks' = [webhooks EXCEPT ![RemovedAt(j)].isActive = FALSE]
            /\ permanentlyFailedWebhooks' =
                   permanentlyFailedWebhooks \ {RemovedAt(j)}
            /\ observed' = [observed EXCEPT !.removed = @ \cup {RemovedAt(j)}]
       ELSE UNCHANGED <<webhooks, permanentlyFailedWebhooks, observed>>
    /\ deliv' = [deliv EXCEPT ![j] = AfterRemove(deliv[j])]
    /\ UNCHANGED <<otherVars, urlCall, rateLimit, now, reg, sends>>

\* the table when the batch starts: MaxHooks active webhooks
ActiveTable ==
    [w \in HookIds |-> Row(Https([i \in 1..(w + 1) |->
                                     IF i = 1 THEN "/" ELSE "a"]), TRUE)]

\* the URL posted, once, while the batch runs: that of webhook 1
RepostedUrls == {Https(<<"/", "a", "/">>)}

SendDurations == {0, MaxSendTime}

InitDelivery ==
    /\ cache = EmptyStore
    /\ lastCall = NoCall
    /\ InitBatchService
    /\ InitCrawlingService
    /\ InitHookServices(ActiveTable)
    /\ urlCall = NoUrlCall

NextDelivery ==
    \/ \E n \in Notices : StartNotificationJobs(n)
    \/ \E j \in Notices : FindAllResolves(j)
    \/ \E j \in Notices : GlobalStampRead(j)
    \/ \E j \in Notices : WebhookStampRead(j)
    \/ \E j \in Notices : SleepEnds(j)
    \/ \E j \in Notices, duration \in SendDurations : SendSucceeds(j, duration)
    \/ \E j \in Notices, duration \in SendDurations, error \in DeliveryErrors :
           SendFails(j, duration, error)
    \/ \E j \in Notices : GlobalStampWritten(j)
    \/ \E j \in Notices : WebhookStampWritten(j)
    \/ \E j \in Notices : RemoveFindOneResolves(j)
    \/ \E j \in Notices, saved \in BOOLEAN : RemoveSaveResolves(j, saved)
    \/ \E u \in RepostedUrls : reg[1].outcome = "none" /\ RequestArrives(1, u)
    \/ FindByUrlReturns(1)
    \/ \E success \in BOOLEAN : TestReturns(1, success)
    \/ CreateFindOneReturns(1)
    \/ SaveUpdateReturns(1)

SpecDelivery == InitDelivery /\ [][NextDelivery]_vars

\* ------------------------------------- one notice job in the executor
\* A notification batch of one notice, submitted with processNotificationBatch:
\* executeJobWithRetry runs the notice job, and deliv[a] is the body that
\* attempt a of the job started. A body that has reached "done" returns its
\* summary to the race of its attempt.

\* the body of attempt a: webhookService.findAll() resolves
NoticeJobFindAllResolves(a) ==
    /\ BodyAt(1, 1, a, {"findAll"})
    /\ deliv[a].pc = "idle"
    /\ IF ActiveIds = {}
       THEN /\ batches' = [batches EXCEPT ![1] =
                              IF RaceOpen(1, 1, a)
                              THEN AttemptSucceeded(Ended(1, 1, a), 1, 1)
                              ELSE Ended(1, 1, a)]
            /\ deliv' = [deliv EXCEPT ![a].pc = "done"]
       ELSE /\ batches' = [batches EXCEPT ![1].job[1].body[a] = "send"]
            /\ deliv' = [deliv EXCEPT ![a] =
                   SendLoop([deliv[a] EXCEPT !.list = Ascending(ActiveIds),
                                             !.k = 1],
                            permanentlyFailedWebhooks, now)]
    /\ UNCHANGED <<jobQueue, isShuttingDown, lastJobId, lastSubmit, cacheVars,
                   shutdown, crawlVars, cleanup, errorCall, urlCall, webhooks,
                   permanentlyFailedWebhooks, rateLimit, now, reg, sends,
                   observed>>

\* the body of attempt a returns its summary: the race of the attempt, if
\* still open, resolves and executeJobWithRetry returns
NoticeJobReturns(a) ==
    /\ BodyAt(1, 1, a, {"send"})
    /\ deliv[a].pc = "done"
    /\ batches' = [batches EXCEPT ![1] =
                      IF RaceOpen(1, 1, a)
                      THEN AttemptSucceeded(Ended(1, 1, a), 1, 1)
                      ELSE Ended(1, 1, a)]
    /\ UNCHANGED <<hookVars, urlCall, jobQueue, isShuttingDown, lastJobId,
                   lastSubmit, cacheVars, shutdown, crawlVars>>

\* the errors discordWebhook.send throws in this run: a permanent one, a
\* rate limit and a network error
NoticeJobErrors ==
    {DeliveryError(NOT_FOUND, 0, 0), DeliveryError(TOO_MANY_REQUESTS, 0, 0),
     PlainError}

NextNoticeJob ==
    \/ batches[1].status = "none" /\ ProcessNotificationBatchCall(1, 1)
    \/ \E a \in Attempts : NoticeJobFindAllResolves(a)
    \/ \E a \in Attempts : GlobalStampRead(a)
    \/ \E a \in Attempts : WebhookStampRead(a)
    \/ \E a \in Attempts : SleepEnds(a)
    \/ \E a \in Attempts : SendSucceeds(a, 0)
    \/ \E a \in Attempts, error \in NoticeJobErrors : SendFails(a, 0, error)
    \/ \E a \in Attempts : GlobalStampWritten(a)
    \/ \E a \in Attempts : WebhookStampWritten(a)
    \/ \E a \in Attempts : RemoveFindOneResolves(a)
    \/ \E a \in Attempts, saved \in BOOLEAN : RemoveSaveResolves(a, saved)
    \/ \E a \in Attempts : NoticeJobReturns(a)
    \/ TimeoutFires(1, 1)
    \/ DelayElapses(1, 1)
    \/ ChunkSettled(1)

SpecNoticeJob == InitDelivery /\ [][NextNoticeJob]_vars

\* ------------------------------------------- the classification of errors
\* What a send throws, as categorizeWebhookError and shouldDeleteWebhook
\* read it: error.response?.status; what the patterns find in
\* error.message; whether error.code is ENOTFOUND, ECONNREFUSED or
\* ETIMEDOUT; whether the message includes 'Invalid URL' or 'webhook'.
ThrownError(status, msgStatus, msgCode, network, mentionsWebhook) ==
    [status |-> status, msgStatus |-> msgStatus, msgCode |-> msgCode,
     network |-> network, mentionsWebhook |-> mentionsWebhook]

\* the HTTP statuses tried: none, 400, and those the code names, and 500
HttpStatuses ==
    {0, 400, NOT_FOUND, UNAUTHORIZED, FORBIDDEN, TOO_MANY_REQUESTS,
     INTERNAL_SERVER_ERROR}

ThrownErrors ==
    {ThrownError(st, ms, mc, nw, mw) :
        st \in HttpStatuses, ms \in HttpStatuses,
        mc \in {0, UNKNOWN_WEBHOOK, 50027}, nw \in BOOLEAN, mw \in BOOLEAN}

\* the switch of categorizeWebhookError over an HTTP status
CategoryOfStatus(status) ==
    IF status = NOT_FOUND THEN "NOT_FOUND"
    ELSE IF status = UNAUTHORIZED THEN "UNAUTHORIZED"
    ELSE IF status = FORBIDDEN THEN "FORBIDDEN"
    ELSE IF status = TOO_MANY_REQUESTS THEN "RATE_LIMITED"
    ELSE "INVALID_WEBHOOK"

\* categorizeWebhookError(error)
CategorizeWebhookError(error) ==
    IF error.status # 0 THEN CategoryOfStatus(error.status)
    ELSE IF error.msgStatus # 0 THEN CategoryOfStatus(error.msgStatus)
    ELSE IF error.msgCode # 0
         THEN IF error.msgCode = UNKNOWN_WEBHOOK THEN "UNKNOWN_WEBHOOK"
              ELSE "DISCORD_API_ERROR"
    ELSE IF error.network THEN "NETWORK_ERROR"
    ELSE IF error.mentionsWebhook THEN "INVALID_WEBHOOK"
    ELSE "UNKNOWN_ERROR"

InitClassify ==
    /\ cache = EmptyStore
    /\ lastCall = NoCall
    /\ InitBatchService
    /\ InitCrawlingService
    /\ urlCall = NoUrlCall
    /\ webhooks = <<>>
    /\ permanentlyFailedWebhooks = {}
    /\ rateLimit = NoStamps
    /\ now = StartTime
    /\ deliv = [j \in Notices |-> IdleDelivery]
    /\ reg = [r \in Requests |-> IdleRequest]
    /\ sends = {}
    /\ observed = NothingObserved
    /\ cleanup = IdleCleanup
    /\ \E e \in ThrownErrors : errorCall = [NoErrorCall EXCEPT !.pc = "thrown",
                                                              !.error = e]

\* the catch block of testWebhook: the category and shouldDelete of the
\* error
ClassifyError ==
    /\ errorCall.pc = "thrown"
    /\ errorCall' = [errorCall EXCEPT
                        !.pc = "classified",
                        !.category = CategorizeWebhookError(errorCall.error),
                        !.shouldDelete = ShouldDeleteWebhook(errorCall.error)]
    /\ UNCHANGED <<cacheVars, batchVars, shutdown, crawlVars, urlCall, webhooks,
                   permanentlyFailedWebhooks, rateLimit, now, deliv, reg,
                   sends, observed, cleanup>>

NextClassify == ClassifyError

SpecClassify == InitClassify /\ [][NextClassify]_vars

\* -------------------------------------- POST /webhooks and its test send
\* One registration whose test delivery resolves or throws an error: the
\* catch block of testWebhook classifies the error, and createWebhook looks
\* at testResult.success.
InitRegisterTest ==
    /\ cache = EmptyStore
    /\ lastCall = NoCall
    /\ InitBatchService
    /\ InitCrawlingService
    /\ urlCall = NoUrlCall
    /\ webhooks \in StoredTables
    /\ permanentlyFailedWebhooks = {}
    /\ rateLimit = NoStamps
    /\ now = StartTime
    /\ deliv = [j \in Notices |-> IdleDelivery]
    /\ reg = [r \in Requests |-> IdleRequest]
    /\ sends = {}
    /\ observed = NothingObserved
    /\ cleanup = IdleCleanup
    /\ \/ errorCall = NoErrorCall
       \/ \E e \in ThrownErrors :
              errorCall = [NoErrorCall EXCEPT !.pc = "thrown", !.error = e]

\* testWebhook: discordWebhook.send of the test message throws
TestSendThrows == reg[1].pc = "test" /\ ClassifyError

\* testWebhook returns: success when the send resolved, the classified
\* failure otherwise
TestWebhookReturns ==
    errorCall.pc # "thrown" /\ TestReturns(1, errorCall.pc = "none")

NextRegisterTest ==
    \/ \E u \in RegUrls : reg[1].outcome = "none" /\ RequestArrives(1, u)
    \/ FindByUrlReturns(1)
    \/ TestSendThrows
    \/ TestWebhookReturns
    \/ CreateFindOneReturns(1)
    \/ SaveUpdateReturns(1)
    \/ SaveNewReturns(1)

SpecRegisterTest == InitRegisterTest /\ [][NextRegisterTest]_vars

\* ------------------------------------------------------- the daily cleanup
\* A row of the table with the whole days since its updatedAt (row i need
\* not have id i here: rows are deleted).
DatedRow(id, isActive, age) == [id |-> id, isActive |-> isActive, age |-> age]

\* ages on either side of the 7, 14 and 30 days the service compares with
RowAges == {1, 10, 20, 40}

\* webhook.updatedAt < cutoffDate, cutoffDate being daysBefore days ago
OlderThan(row, daysBefore) == row.age > daysBefore

\* the rows of a table whose id is not in gone, in order
RECURSIVE RowsLeft(_, _)
RowsLeft(rows, gone) ==
    IF rows = <<>> THEN <<>>
    ELSE IF Head(rows).id \in gone THEN RowsLeft(Tail(rows), gone)
         ELSE <<Head(rows)>> \o RowsLeft(Tail(rows), gone)

\* cleanupOldInactiveWebhooks(daysBefore): the ids selected, then deleted
CleanupOldInactiveWebhooks(rows, daysBefore) ==
    RowsLeft(rows, {rows[i].id : i \in {k \in 1..Len(rows) :
                        ~rows[k].isActive /\ OlderThan(rows[k], daysBefore)}})

\* cleanupInactiveWebhooks(): delete({isActive: false})
CleanupInactiveWebhooks(rows) ==
    RowsLeft(rows, {rows[i].id : i \in {k \in 1..Len(rows) : ~rows[k].isActive}})

\* getDetailedStats()
GetDetailedStats(rows) ==
    LET n(set) == Cardinality(set)
        all == 1..Len(rows)
    IN [total |-> Len(rows),
        active |-> n({k \in all : rows[k].isActive}),
        inactive |-> n({k \in all : ~rows[k].isActive}),
        oldInactive |-> n({k \in all : /\ ~rows[k].isActive
                                         /\ OlderThan(rows[k], STATS_OLD_DAYS)})]

\* efficiency < percent, efficiency being active / total * 100, or 100 for
\* an empty table
EfficiencyBelow(stats, percent) ==
    IF stats.total > 0
    THEN stats.active * 100 < percent * stats.total
    ELSE 100 < percent

\* where intelligentWebhookCleanup goes after a step
AfterCleanupStep(stats, step) ==
    IF step = "stats" /\ stats.oldInactive > 0 THEN "old"
    ELSE IF step \in {"stats", "old"} /\ EfficiencyBelow(stats, LOW_EFFICIENCY)
         THEN "recent"
    ELSE IF step \in {"stats", "old", "recent"}
            /\ EfficiencyBelow(stats, CRITICAL_EFFICIENCY)
         THEN "all"
    ELSE "final"

\* intelligentWebhookCleanup is called: it awaits getDetailedStats
CleanupStarts ==
    /\ cleanup.pc = "idle"
    /\ cleanup' = [cleanup EXCEPT !.pc = "stats", !.before = webhooks]
    /\ UNCHANGED <<cacheVars, batchVars, shutdown, crawlVars, urlCall, webhooks,
                   permanentlyFailedWebhooks, rateLimit, now, deliv, reg,
                   sends, observed, errorCall>>

\* getDetailedStats resolves
CleanupStatsResolve ==
    /\ cleanup.pc = "stats"
    /\ cleanup' = [cleanup EXCEPT
                      !.stats = GetDetailedStats(webhooks),
                      !.pc = AfterCleanupStep(GetDetailedStats(webhooks), "stats")]
    /\ UNCHANGED <<cacheVars, batchVars, shutdown, crawlVars, urlCall, webhooks,
                   permanentlyFailedWebhooks, rateLimit, now, deliv, reg,
                   sends, observed, errorCall>>

\* cleanupOldInactiveWebhooks(14) resolves
CleanupOldResolves ==
    /\ cleanup.pc = "old"
    /\ webhooks' = CleanupOldInactiveWebhooks(webhooks, CLEANUP_OLD_DAYS)
    /\ cleanup' = [cleanup EXCEPT !.pc = AfterCleanupStep(cleanup.stats, "old")]
    /\ UNCHANGED <<cacheVars, batchVars, shutdown, crawlVars, urlCall,
                   permanentlyFailedWebhooks, rateLimit, now, deliv, reg,
                   sends, observed, errorCall>>

\* cleanupOldInactiveWebhooks(7) resolves
CleanupRecentResolves ==
    /\ cleanup.pc = "recent"
    /\ webhooks' = CleanupOldInactiveWebhooks(webhooks, CLEANUP_RECENT_DAYS)
    /\ cleanup' = [cleanup EXCEPT !.pc = AfterCleanupStep(cleanup.stats, "recent")]
    /\ UNCHANGED <<cacheVars, batchVars, shutdown, crawlVars, urlCall,
                   permanentlyFailedWebhooks, rateLimit, now, deliv, reg,
                   sends, observed, errorCall>>

\* cleanupInactiveWebhooks() resolves
CleanupAllResolves ==
    /\ cleanup.pc = "all"
    /\ webhooks' = CleanupInactiveWebhooks(webhooks)
    /\ cleanup' = [cleanup EXCEPT !.pc = AfterCleanupStep(cleanup.stats, "all")]
    /\ UNCHANGED <<cacheVars, batchVars, shutdown, crawlVars, urlCall,
                   permanentlyFailedWebhooks, rateLimit, now, deliv, reg,
                   sends, observed, errorCall>>

\* the closing getDetailedStats resolves: the cleanup logs and returns
CleanupFinalStatsResolve ==
    /\ cleanup.pc = "final"
    /\ cleanup' = [cleanup EXCEPT !.pc = "done"]
    /\ UNCHANGED <<cacheVars, batchVars, shutdown, crawlVars, urlCall, webhooks,
                   permanentlyFailedWebhooks, rateLimit, now, deliv, reg,
                   sends, observed, errorCall>>

\* the tables the cleanup may find: up to MaxRows rows, row i with id i
DatedTables ==
    UNION {{[i \in 1..n |-> DatedRow(i, f[i][1], f[i][2])] :
                f \in [1..n -> BOOLEAN \X RowAges]} : n \in 0..MaxRows}

InitCleanup ==
    /\ cache = EmptyStore
    /\ lastCall = NoCall
    /\ InitBatchService
    /\ InitCrawlingService
    /\ \E rows \in DatedTables : InitHookServices(rows)
    /\ urlCall = NoUrlCall

NextCleanup ==
    \/ CleanupStarts
    \/ CleanupStatsResolve
    \/ CleanupOldResolves
    \/ CleanupRecentResolves
    \/ CleanupAllResolves
    \/ CleanupFinalStatsResolve

SpecCleanup == InitCleanup /\ [][NextCleanup]_vars

\* ------------------------------------- the cleanup and a registration
\* cleanupOldInactiveWebhooks(daysBefore) in its two awaits, next to the
\* calls of WebhookService that write a row. The tables are shorter than
\* batchSize (1000): the limit cuts nothing and the loop runs once.

\* the ids of the inactive rows older than daysBefore days (the query)
SelectOldInactive(rows, daysBefore) ==
    {rows[i].id : i \in {k \in 1..Len(rows) :
                            ~rows[k].isActive /\ OlderThan(rows[k], daysBefore)}}

\* the query for the ids resolves: no id ends the loop, else delete is called
OldSelectResolves(daysBefore) ==
    /\ cleanup.pc = "idle"
    /\ cleanup' = [cleanup EXCEPT
                      !.before = webhooks,
                      !.ids = SelectOldInactive(webhooks, daysBefore),
                      !.pc = IF SelectOldInactive(webhooks, daysBefore) = {}
                             THEN "done" ELSE "delete"]
    /\ UNCHANGED <<cacheVars, batchVars, shutdown, crawlVars, urlCall, webhooks,
                   permanentlyFailedWebhooks, rateLimit, now, deliv, reg,
                   sends, observed, errorCall>>

\* delete({id: In(ids)}) resolves: the rows with these ids are gone
OldDeleteResolves ==
    /\ cleanup.pc = "delete"
    /\ webhooks' = RowsLeft(webhooks, cleanup.ids)
    /\ cleanup' = [cleanup EXCEPT !.pc = "done"]
    /\ UNCHANGED <<cacheVars, batchVars, shutdown, crawlVars, urlCall,
                   permanentlyFailedWebhooks, rateLimit, now, deliv, reg,
                   sends, observed, errorCall>>

\* create(webhookData) finds the row of its url inactive and saves it with
\* isActive = true and updatedAt = new Date()
CreateRestoresRow(k) ==
    /\ k \in 1..Len(webhooks)
    /\ ~webhooks[k].isActive
    /\ webhooks' = [webhooks EXCEPT ![k].isActive = TRUE, ![k].age = 0]
    /\ UNCHANGED <<cacheVars, batchVars, shutdown, crawlVars, urlCall, cleanup,
                   permanentlyFailedWebhooks, rateLimit, now, deliv, reg,
                   sends, observed, errorCall>>

\* remove(id) finds the row and saves it with isActive = false; touched
\* tells whether the save of the entity also sets updatedAt
RemoveDeactivatesRow(k, touched) ==
    /\ k \in 1..Len(webhooks)
    /\ webhooks[k].isActive
    /\ webhooks' = [webhooks EXCEPT
                        ![k].isActive = FALSE,
                        ![k].age = IF touched THEN 0 ELSE @]
    /\ UNCHANGED <<cacheVars, batchVars, shutdown, crawlVars, urlCall, cleanup,
                   permanentlyFailedWebhooks, rateLimit, now, deliv, reg,
                   sends, observed, errorCall>>

\* the tables of up to MaxHooks + 1 rows
ShortDatedTables == {rows \in DatedTables : Len(rows) <= MaxHooks + 1}

InitCleanupRace ==
    /\ cache = EmptyStore
    /\ lastCall = NoCall
    /\ InitBatchService
    /\ InitCrawlingService
    /\ \E rows \in ShortDatedTables : InitHookServices(rows)
    /\ urlCall = NoUrlCall

NextCleanupRace ==
    \/ \E d \in {CLEANUP_RECENT_DAYS, CLEANUP_OLD_DAYS} : OldSelectResolves(d)
    \/ OldDeleteResolves
    \/ \E k \in 1..MaxRows : CreateRestoresRow(k)
    \/ \E k \in 1..MaxRows, touched \in BOOLEAN : RemoveDeactivatesRow(k, touched)

SpecCleanupRace == InitCleanupRace /\ [][NextCleanupRace]_vars

C2_UpdateThenFindNewEmpty ==
    lastCall.op = "updateCache"
        => FindNewNotices(cache, lastCall.arg).result = <<>>

\* the tick has got a crawl result it went on with
HasCrawled(t) ==
    \/ tick[t].pc = "waiting"
    \/ tick[t].outcome \in {"no new", "sent"}

\* u is the tick after t: the ticks between them were skipped
NextTickAfter(t, u) ==
    /\ t < u
    /\ \A v \in TickIds : (t < v /\ v < u) => tick[v].outcome = "skipped"

\* C3: when two consecutive ticks get the same crawl result, the second
\* submits no notification batch (the notices new in the first were
\* dispatched by the first, once).
C3_SameCrawlDispatchedOnce ==
    \A t, u \in TickIds :
        (/\ NextTickAfter(t, u)
         /\ HasCrawled(t) /\ tick[t].pc = "done"
         /\ HasCrawled(u)
         /\ tick[u].crawled = tick[t].crawled)
            => (tick[u].pc = "done" /\ tick[u].outcome = "no new")

\* the invocation is past the isProcessing check
PastCheck(t) == tick[t].pc \in {"crawling", "waiting"}

\* C4: at most one handleCron invocation is past the isProcessing check, the
\* flag is set while one is, and an invocation that was skipped has crawled
\* nothing and submitted nothing.
C4_HandleCronNonReentrant ==
    /\ \A t, u \in TickIds : (PastCheck(t) /\ PastCheck(u)) => t = u
    /\ (\E t \in TickIds : PastCheck(t)) => isProcessing
    /\ \A t \in TickIds :
           tick[t].outcome = "skipped"
               => tick[t].crawled = <<>> /\ tick[t].batch = 0

\* a tick fired while the tick before it was waiting for its batch, and
\* was skipped
C4_Witness ==
    \E t, u \in TickIds :
        /\ t < u
        /\ tick[t].pc = "waiting"
        /\ tick[u].outcome = "skipped"

\* C5: a tick that submitted a batch calls updateCache(crawled) only when
\* the batch has completed: executeBatch has resolved with one result per
\* notice job, and no job body (delivery) of the batch is still executing.
C5_UpdateAfterBatchCompleted ==
    [][\A t \in TickIds :
          (tick[t].pc = "waiting" /\ tick'[t].pc = "done") =>
              LET bt == batches[tick[t].batch] IN
              /\ bt.status = "resolved"
              /\ Len(bt.results) = bt.n
              /\ BodiesInFlight(bt) = {}]_vars

\* the error a call gets at the closed gate
ShutdownError(op) ==
    IF op = "executeBatch"
    THEN "Service is shutting down, cannot process new jobs"
    ELSE "Service is shutting down, cannot process new notifications"

\* C6: once isShuttingDown is set it stays set, and from then on no batch
\* is started, no job id is added to jobQueue, and every call of
\* executeBatch or processNotificationBatch ends with the shutting-down
\* error.
C6_GateStaysClosed ==
    [][isShuttingDown =>
          /\ isShuttingDown'
          /\ \A b \in BatchIds :
                 batches[b].status = "none" => batches'[b].status = "none"
          /\ DOMAIN jobQueue' \subseteq DOMAIN jobQueue
          /\ lastSubmit' # lastSubmit
                 => /\ lastSubmit'.batch = 0
                    /\ lastSubmit'.outcome = ShutdownError(lastSubmit'.op)]_vars

\* a notification batch was refused while a batch started before the
\* shutdown is still running
C6_Witness ==
    /\ isShuttingDown
    /\ lastSubmit.op = "processNotificationBatch"
    /\ lastSubmit.outcome = ShutdownError("processNotificationBatch")
    /\ RunningBatches # {}

\* C7: when gracefulShutdown has returned without the ceiling having
\* elapsed, no batch that was running when it was called is still running,
\* whether it was started with executeBatch or processNotificationBatch.
C7_ShutdownWaitsForInFlight ==
    (shutdown.pc = "returned" /\ ~shutdown.ceiling)
        => \A b \in shutdown.inFlightAtCall : batches[b].status # "running"

\* C8: when the ceiling has elapsed, gracefulShutdown has returned (not
\* failed) and jobQueue was empty when it returned.
C8_CeilingProceedsAndClears ==
    shutdown.ceiling
        => /\ shutdown.pc = "returned"
           /\ shutdown.tableAtEnd = {}

\* C9: executeBatch returns exactly one result per submitted job, in
\* submission order: result i is the result of job i (and carries the value
\* job i returned), whatever the order in which the jobs settled, the
\* concurrency, and the slicing by batchSize.
C9_ResultsInSubmissionOrder ==
    \A b \in BatchIds :
        batches[b].status = "resolved" =>
            /\ Len(batches[b].results) = batches[b].n
            /\ \A i \in 1..batches[b].n :
                   /\ batches[b].results[i].job = i
                   /\ batches[b].results[i].success
                          => batches[b].results[i].data = i

\* a batch of three jobs cut into slices of two, run two at a time, whose
\* second job settled before its first
C9_Witness ==
    \E b \in BatchIds :
        /\ batches[b].status = "resolved"
        /\ batches[b].n = 3
        /\ batches[b].opts.batchSize = 2
        /\ batches[b].opts.concurrency = 2
        /\ batches[b].settleOrder = <<2, 1, 3>>

\* the per-job part of C10: in the results of a finished batch every job was
\* run and has its own result, success exactly when one of its own attempts
\* returned, and the error of its last attempt otherwise
JobsKeepOwnResults(b) ==
    \A i \in 1..batches[b].n :
        /\ batches[b].job[i].attempt >= 1
        /\ batches[b].results[i].job = i
        /\ batches[b].results[i].success = batches[b].job[i].ok
        /\ ~batches[b].job[i].ok
               => batches[b].results[i].error \in {"thrown", "timed out"}

\* C10: a job that fails (throws on every attempt or times out) never aborts
\* the batch: a running batch is never stuck or ended by the failure (a timer
\* is due or a settled chunk can resume, until executeBatch resolves), and
\* when it resolves there is one result per job, the failed job's result has
\* success = false and every other job was run and has its own result.
C10_FailedJobDoesNotAbortBatch ==
    \A b \in BatchIds :
        /\ batches[b].status = "running" => CanProgress(b)
        /\ batches[b].status = "resolved"
               => /\ Len(batches[b].results) = batches[b].n
                  /\ JobsKeepOwnResults(b)

\* a finished batch in which job 1 timed out on every attempt, job 2 threw on
\* every attempt and job 3 succeeded
C10_Witness ==
    \E b \in BatchIds :
        /\ batches[b].status = "resolved"
        /\ batches[b].n = 3
        /\ batches[b].opts.retryCount = 1
        /\ batches[b].results[1].error = "timed out"
        /\ batches[b].results[2].error = "thrown"
        /\ batches[b].results[3].success

\* the job bodies of a batch that have been started and have not ended
BodiesExecuting(bt) ==
    {p \in (1..bt.n) \X Attempts : bt.job[p[1]].body[p[2]] # "none"}

\* C11: within one executeBatch call never more than `concurrency` job bodies
\* are executing, the bodies of attempts that lost the race against their
\* timeout included.
C11_AtMostConcurrencyBodies ==
    \A b \in BatchIds :
        batches[b].status = "running"
            => Cardinality(BodiesExecuting(batches[b]))
                   <= batches[b].opts.concurrency

\* the job of a started batch, before and after a step
JobOf(b, i) == batches[b].job[i]
JobAfter(b, i) == batches'[b].job[i]

\* a step of job i of batch b obeys the retry loop
RetryLoopStep(b, i) ==
    LET retryCount == batches'[b].opts.retryCount IN
    /\ JobAfter(b, i).attempt <= retryCount + 1
    /\ JobOf(b, i).ok
           => /\ JobAfter(b, i).attempt = JobOf(b, i).attempt
              /\ JobAfter(b, i).result = JobOf(b, i).result
    /\ JobAfter(b, i).ok
           => /\ JobAfter(b, i).st = "settled"
              /\ JobAfter(b, i).result = SuccessResult(i, i)
    /\ JobAfter(b, i).st = "settled" /\ ~JobAfter(b, i).ok
           => /\ JobAfter(b, i).attempt = retryCount + 1
              /\ \A a \in 1..(retryCount + 1) :
                     JobAfter(b, i).errorOf[a] # "none"
              /\ JobAfter(b, i).result =
                     FailureResult(i, JobAfter(b, i).errorOf[retryCount + 1])

\* C12: each job is attempted at most retryCount + 1 times; once an attempt
\* has succeeded no further attempt is made and the job's result is
\* success = true with the value of that attempt; if all retryCount + 1
\* attempts fail the result is success = false with the error of the last
\* attempt.
C12_RetryLoop ==
    [][\A b \in BatchIds : \A i \in JobIndexes :
           batches'[b].status # "none" /\ i <= batches'[b].n
               => RetryLoopStep(b, i)]_vars

\* a job that failed its first attempt and succeeded on the second, and a
\* job that failed every attempt, the last one by a thrown error after a
\* timeout
C12_Witness ==
    \E b \in BatchIds :
        /\ batches[b].status = "resolved"
        /\ batches[b].opts.retryCount = 1
        /\ batches[b].n >= 2
        /\ batches[b].job[1].ok /\ batches[b].job[1].attempt = 2
        /\ batches[b].job[2].errorOf = <<"timed out", "thrown">>
        /\ batches[b].results[2].error = "thrown"

\* the race of the current attempt of job i is rejected by its timer in
\* this step: the attempt is over and its body has not ended
TimedOutInStep(b, i) ==
    /\ batches[b].status = "running"
    /\ JobOf(b, i).st = "running"
    /\ JobAfter(b, i).st # "running"
    /\ JobOf(b, i).body[JobOf(b, i).attempt] # "none"
    /\ JobAfter(b, i).body = JobOf(b, i).body

\* the body of the current attempt of job i ends in this step, before the
\* timer of the attempt
FinishedInStep(b, i) ==
    /\ batches[b].status = "running"
    /\ JobOf(b, i).st = "running"
    /\ JobOf(b, i).body[JobOf(b, i).attempt] # "none"
    /\ JobAfter(b, i).body[JobOf(b, i).attempt] = "none"

\* C13: an attempt still unfinished when its timeout elapses fails with
\* 'timed out'; a job whose every attempt did so ends with success = false
\* and that error; an attempt that finishes before its timeout is never
\* reported as timed out.
C13_TimeoutReported ==
    [][\A b \in BatchIds : \A i \in JobIndexes :
           LET a == JobOf(b, i).attempt IN
           /\ TimedOutInStep(b, i)
                  => /\ JobAfter(b, i).errorOf[a] = "timed out"
                     /\ ~JobAfter(b, i).ok
                     /\ JobAfter(b, i).st = "settled"
                            => JobAfter(b, i).result =
                                   FailureResult(i, "timed out")
           /\ FinishedInStep(b, i)
                  => /\ JobAfter(b, i).errorOf[a] # "timed out"
                     /\ JobAfter(b, i).result.error # "timed out"]_vars

\* a resolved batch with a job all of whose attempts timed out and that is
\* reported so, and a job that finished in time
C13_Witness ==
    \E b \in BatchIds :
        /\ batches[b].status = "resolved"
        /\ batches[b].opts.retryCount = 1
        /\ batches[b].n >= 2
        /\ batches[b].job[1].errorOf = <<"timed out", "timed out">>
        /\ batches[b].results[1] = FailureResult(1, "timed out")
        /\ batches[b].results[2].success

\* request r is inside WebhookService.create
InCreate(r) == reg[r].pc \in {"findOne", "saveUpdate", "saveNew"}

\* C18: no two rows of the table, active or not, hold the same URL, and when
\* a create has ended there is exactly one row with the canonical form of
\* its URL, and that row is active, also when another create of the same
\* canonical form ran at the same time.
C18_OneRowPerCanonicalUrl ==
    [][/\ \A v, w \in 1..Len(webhooks') :
              webhooks'[v].url = webhooks'[w].url => v = w
       /\ \A r \in Requests :
              InCreate(r) /\ reg'[r].pc = "idle"
                  => LET url == NormalizeWebhookUrl(reg[r].url)
                         rows == {w \in 1..Len(webhooks') : webhooks'[w].url = url}
                     IN /\ Cardinality(rows) = 1
                        /\ \A w \in rows : webhooks'[w].isActive]_vars

\* two creates of the same canonical form ran at the same time, both from a
\* findOne that found no row: one created the row, the other failed
C18_Witness ==
    /\ reg[1].outcome = "created" /\ reg[1].pc = "idle"
    /\ reg[2].outcome = "failed" /\ reg[2].pc = "idle"
    /\ Len(webhooks) = 1

\* C19: normalizeWebhookUrl is idempotent: normalizing the result of a call
\* gives that result again, for every input.
C19_NormalizeIdempotent ==
    urlCall.pc = "twice" => urlCall.twice = urlCall.once

\* C20: registrations never raise the number of active webhooks above the
\* limit.
C20_ActiveCountWithinLimit ==
    Cardinality(ActiveIds) <= ACTIVE_LIMIT

\* the notification batch has completed: every notice job started has
\* returned
BatchCompleted ==
    /\ \E j \in Notices : deliv[j].pc = "done"
    /\ \A j \in Notices : deliv[j].pc \in {"idle", "done"}

\* the webhooks for which some delivery result of the batch had shouldDelete
ShouldDeleteSet ==
    {w \in RowIds : \E j \in Notices : \E i \in 1..Len(deliv[j].results) :
         /\ deliv[j].results[i].webhookId = w
         /\ deliv[j].results[i].shouldDelete}

\* C14: after a notification batch has completed, every webhook for which
\* some delivery result had shouldDelete = true is inactive, also when a
\* deactivation call fails or the same URL is registered while the batch runs.
C14_ShouldDeleteSetInactive ==
    BatchCompleted => \A w \in ShouldDeleteSet : ~webhooks[w].isActive

\* job j calls discordWebhook.send in this step
SendCalled(j) == deliv[j].pc # "send" /\ deliv'[j].pc = "send"

\* C15: once a webhook has been deactivated after a permanent failure, no
\* job of the batch calls send for it while it is inactive, whenever that
\* job fetched the list of active webhooks.
C15_NoSendAfterDeactivation ==
    [][\A j \in Notices :
           SendCalled(j)
               => ~(/\ deliv'[j].list[deliv'[j].k] \in observed.removed
                    /\ ~webhooks[deliv'[j].list[deliv'[j].k]].isActive)]_vars

\* C16: a failure that is not permanent (HTTP 429, a network error, an
\* unknown error) never deactivates a webhook: a webhook all of whose
\* failures were of that kind is active, during and after the batch.
C16_TransientFailureKeepsActive ==
    \A w \in RowIds : w \notin observed.permanent => webhooks[w].isActive

\* a completed batch in which webhook 1 only failed transiently, in both
\* jobs, and is active, while webhook 2 was deactivated
C16_Witness ==
    /\ BatchCompleted
    /\ \A j \in Notices :
           /\ Len(deliv[j].results) >= 1
           /\ deliv[j].results[1] = DeliveryResult(1, FALSE, FALSE)
    /\ 1 \notin observed.permanent
    /\ webhooks[1].isActive
    /\ 2 \in observed.removed

\* the distance of two times
Apart(t, u) == IF t >= u THEN t - u ELSE u - t

\* C17: any two successful deliveries are sent at least 1000 / 30 ms apart,
\* and two to the same webhook at least 1000 ms apart.
C17_DeliveriesSpaced ==
    \A x, y \in sends :
        x # y => /\ Apart(x[3], y[3]) >= GlobalInterval
                 /\ x[2] = y[2] => Apart(x[3], y[3]) >= WebhookInterval

\* the info of a store as getCacheInfo reads it
InfoOf(c) == GetCacheInfo(c).info

StoredNums(c) == Range(OrEmpty(c.recent_notices))

\* C23: when a process has been shut down and a new one has started, every
\* num that was in the cache before the shutdown is still in the cache.
C23_CacheSurvivesBounce ==
    (lastCall.op = "onModuleDestroy" /\ startup = "constructed")
        => StoredNums(lastCall.before) \subseteq StoredNums(cache)

\* the stored notices and the stored id list, [] for a missing key
StoredNotices(c) == OrEmpty(c.recent_notices)
StoredIds(c) == OrEmpty(c.new_notices_set)

\* C24: the cache never holds more than MAX_SIZE notices, whatever calls of
\* initializeCache, updateCache, findNewNotices and clearCache were made and
\* however long the crawled lists were.
C24_AtMostMaxSize ==
    Len(StoredNotices(cache)) <= MAX_SIZE

\* updateCache has merged a crawl into a full cache: more than MAX_SIZE nums
\* were at hand and MAX_SIZE notices are stored
C24_Witness ==
    /\ lastCall.op = "updateCache"
    /\ Len(StoredNotices(lastCall.before)) = MAX_SIZE
    /\ Range(lastCall.arg) \ StoredNums(lastCall.before) # {}
    /\ Len(StoredNotices(cache)) = MAX_SIZE
    /\ cache # lastCall.before

C29_StrictlyDescending ==
    \A i \in 1..(Len(StoredNotices(cache)) - 1) :
        StoredNotices(cache)[i] > StoredNotices(cache)[i + 1]

\* handleCron invocation t went past its checks: it crawls, waits for its
\* batch, or has ended otherwise than by being skipped
TickRan(t) ==
    \/ tick[t].pc \in {"crawling", "waiting"}
    \/ tick[t].pc = "done" /\ tick[t].outcome # "skipped"

\* C27: while the startup crawl has not finished, or has failed,
\* isInitialized is false, and no handleCron invocation crawls, diffs or
\* dispatches before the startup initialization has completed successfully.
C27_NoTickBeforeInitialized ==
    /\ startup # "done" => ~isInitialized
    /\ \A t \in TickIds : TickRan(t) => startup = "done"

\* the outcomes of a registration that failed
FailedOutcomes == Refusals \cup {"duplicate", "test failed", "failed"}

\* request r takes this step
StepOf(r) == reg'[r] # reg[r]

IdsOf(rows) == {rows[i].id : i \in 1..Len(rows)}
InactiveOlder(rows, days) ==
    {rows[i].id : i \in {k \in 1..Len(rows) :
                             ~rows[k].isActive /\ rows[k].age > days}}

\* the efficiency the cleanup started with is below percent
StartedBelow(percent) ==
    EfficiencyBelow(GetDetailedStats(cleanup.before), percent)

\* C26: when the daily cleanup has run, every inactive webhook older than 14
\* days is deleted, whatever the efficiency; below 70 those older than 7
\* days are deleted too, below 50 all inactive ones; no active webhook is
\* deleted.
C26_CleanupDeletes ==
    cleanup.pc = "done" =>
        /\ InactiveOlder(cleanup.before, CLEANUP_OLD_DAYS) \cap IdsOf(webhooks) = {}
        /\ StartedBelow(LOW_EFFICIENCY) =>
               InactiveOlder(cleanup.before, CLEANUP_RECENT_DAYS)
                   \cap IdsOf(webhooks) = {}
        /\ StartedBelow(CRITICAL_EFFICIENCY) =>
               InactiveOlder(cleanup.before, 0) \cap IdsOf(webhooks) = {}
        /\ \A i \in 1..Len(cleanup.before) :
               cleanup.before[i].isActive =>
                   cleanup.before[i].id \in IdsOf(webhooks)

\* the categories of a permanent failure
PermanentCategories == {"NOT_FOUND", "UNAUTHORIZED", "FORBIDDEN", "INVALID_WEBHOOK"}

\* the HTTP status of an error, in error.response or in the message, is a
\* 4xx other than 429
OtherClientError(error) ==
    LET st == IF error.status # 0 THEN error.status ELSE error.msgStatus
    IN st >= 400 /\ st < INTERNAL_SERVER_ERROR /\ st # TOO_MANY_REQUESTS

\* C25: a failed delivery has shouldDelete = true exactly when its category
\* is NOT_FOUND, UNAUTHORIZED, FORBIDDEN or INVALID_WEBHOOK, for every error;
\* an error with any 4xx status other than 429 is among these.
C25_ShouldDeleteIffPermanentCategory ==
    errorCall.pc = "classified" =>
        /\ errorCall.shouldDelete <=> errorCall.category \in PermanentCategories
        /\ OtherClientError(errorCall.error) => errorCall.shouldDelete

\* handleCron invocation t ends in this step because sendNotifications threw
DispatchThrewInStep(t) ==
    tick[t].pc = "crawling" /\ tick'[t].outcome = "rejected"

PendingNotificationBatches ==
    {b \in BatchIds : batches[b].kind = "notification" /\ batches[b].status = "running"}

\* C31: a notification batch has an entry in jobQueue from its submission
\* until its completion and none afterwards, and once every submitted batch
\* has settled jobQueue is empty (as long as forceShutdown has not cleared it).
C31_EntryFromSubmissionToCompletion ==
    ~shutdown.forced =>
        /\ \A b \in BatchIds :
               batches[b].kind = "notification" =>
                   (b \in QueueValues(jobQueue) <=> batches[b].status = "running")
        /\ (PendingNotificationBatches = {} => DOMAIN jobQueue = {})

\* C38: any two notification batches that have not completed have entries
\* of their own in jobQueue, also when their ids were generated in the same
\* millisecond (as long as forceShutdown has not cleared the table).
C38_OwnEntryPerPendingBatch ==
    ~shutdown.forced =>
        \A b, c \in PendingNotificationBatches :
            b # c => \E k, l \in DOMAIN jobQueue :
                         k # l /\ jobQueue[k] = b /\ jobQueue[l] = c

\* sendDiscordNotificationBatch returned a failed result with this shouldDelete
HasFailure(results, shouldDelete) ==
    \E k \in 1..Len(results) :
        ~results[k].success /\ results[k].shouldDelete = shouldDelete

\* the body of attempt a of the notice job has returned to the race of its
\* attempt, which had not timed out
ReturnedInTime(a) ==
    /\ batches[1].status # "none"
    /\ deliv[a].pc = "done"
    /\ batches[1].job[1].body[a] = "none"
    /\ batches[1].job[1].errorOf[a] = "none"

\* C32: when an attempt of a notice job ends with a delivery failure of a
\* non-permanent category and retries are left, the executor retries the
\* job; when its failures are all permanent it does not.
C32_RetryOnlyTransientFailures ==
    \A a \in Attempts :
        ReturnedInTime(a) =>
            LET j == batches[1].job[1] IN
            /\ (HasFailure(deliv[a].results, FALSE) /\ a <= batches[1].opts.retryCount)
                   => (j.st = "delay" \/ j.attempt > a)
            /\ ~HasFailure(deliv[a].results, FALSE)
                   => (j.st = "settled" /\ j.attempt = a)

\* attempt a of the notice job is in sendDiscordNotificationBatch while a
\* later attempt has a body running
RetryDuringSend(a, later) ==
    /\ batches[1].status # "none"
    /\ a < later
    /\ batches[1].job[1].body[a] = "send"
    /\ batches[1].job[1].body[later] # "none"

\* C39: each webhook receives at most one successful delivery of the notice,
\* also when the executor retries the notice job: all deliveries to a
\* webhook are made by one attempt, and no attempt runs while an earlier
\* attempt of the job, timed out, is still sending.
C39_OneDeliveryPerNoticeAndWebhook ==
    /\ \A s, t \in sends : s[2] = t[2] => s = t
    /\ \A a, later \in Attempts : ~RetryDuringSend(a, later)

\* job j has delivered to webhook w
Delivered(j, w) == \E s \in sends : s[1] = j /\ s[2] = w

\* discordWebhook.send of job j rejects in this step
SendFailedInStep(j) ==
    deliv[j].pc = "send" /\ deliv'[j].pc # "send" /\ deliv'[j].pc # "setGlobal"

\* C33: the rate-limit timestamps are written only after a successful send,
\* the global one and that of the webhook to the same time (the Date.now()
\* updateRateLimitTimestamp took), and a failed send leaves the global
\* timestamp and every webhook's timestamp unchanged.
C33_StampsOnlyAfterSuccess ==
    [][/\ rateLimit'.global # rateLimit.global =>
              \E j \in Notices :
                  /\ deliv[j].pc = "setGlobal" /\ deliv'[j].pc = "setHook"
                  /\ Delivered(j, HookAt(j))
                  /\ rateLimit'.global = deliv[j].t0
                  /\ deliv'[j].t0 = deliv[j].t0
       /\ \A w \in HookIds :
              rateLimit'.hook[w] # rateLimit.hook[w] =>
                  \E j \in Notices :
                      /\ deliv[j].pc = "setHook" /\ HookAt(j) = w
                      /\ Delivered(j, w)
                      /\ rateLimit'.hook[w] = deliv[j].t0
       /\ \A j \in Notices : SendFailedInStep(j) => rateLimit' = rateLimit]_vars

\* a send to one webhook has succeeded and both timestamps hold its time,
\* and a send to another webhook has failed and left no timestamp
C33_Witness ==
    \E j \in Notices, w, v \in HookIds :
        /\ Delivered(j, w)
        /\ rateLimit.hook[w] # 0 /\ rateLimit.hook[w] = rateLimit.global
        /\ rateLimit.hook[v] = 0
        /\ \E k \in 1..Len(deliv[j].results) :
               deliv[j].results[k].webhookId = v /\ ~deliv[j].results[k].success

\* the categories of a failure that is not permanent
TransientCategories == {"RATE_LIMITED", "NETWORK_ERROR", "UNKNOWN_ERROR"}

\* the registration has ended past verification and the duplicate check
EndedAfterTest(r) ==
    /\ reg[r].pc = "idle"
    /\ reg[r].outcome \in {"test failed", "created", "restored", "existing", "failed"}

\* C34: a registration that passed verification creates or reactivates the
\* webhook when the test delivery succeeded or failed with a category that
\* is not permanent, and only then.
C34_TransientTestFailureStillCreates ==
    \A r \in Requests :
        EndedAfterTest(r) =>
            (reg[r].outcome \in {"created", "restored"}
                 <=> \/ errorCall.pc = "none"
                     \/ errorCall.category \in TransientCategories)

\* the webhooks job j is still going to deactivate: the permanent failures
\* among its results that its loop over permanentFailureIds has not passed
RemovalsAhead(j) ==
    LET ids == PermanentFailureIds(deliv[j].results) IN
    IF deliv[j].pc \in {"rmFind", "rmSave"}
    THEN {ids[k] : k \in deliv[j].rm..Len(ids)}
    ELSE IF deliv[j].pc \in {"idle", "findAll", "done"} THEN {}
    ELSE Range(ids)

\* in this step the send loop of job j pushes a result for webhook w without
\* having called discordWebhook.send for it
SkippedInStep(j, w) ==
    \E k \in (Len(deliv[j].results) + 1)..Len(deliv'[j].results) :
        /\ deliv'[j].results[k].webhookId = w
        /\ ~(/\ deliv[j].pc \in {"send", "setHook"}
             /\ HookAt(j) = w
             /\ k = Len(deliv[j].results) + 1)

\* C35: the step in which a job deactivates a webhook leaves the webhook
\* out of permanentlyFailedWebhooks, and an active webhook is skipped by the
\* send loop only while a job that saw it fail is still going to deactivate
\* it, never because of a flag left behind (the row reactivated, or a
\* deactivation that failed).
C35_NoStaleFailureFlag ==
    [][\A w \in HookIds :
           /\ (webhooks[w].isActive /\ ~webhooks'[w].isActive)
                  => w \notin permanentlyFailedWebhooks'
           /\ \A j \in Notices :
                  (SkippedInStep(j, w) /\ webhooks[w].isActive)
                      => \E i \in Notices : w \in RemovalsAhead(i)]_vars

\* C36: a tick that has set isProcessing releases it in the end, whatever
\* happens to its crawl, its dispatch and its batch, also when a shutdown
\* clears the timers while a job of the batch waits in its retry delay.
C36_LatchReleased == isProcessing ~> ~isProcessing


\* C37: a cleanup never deletes a row that is active at the moment of the
\* delete: no step removes from the table a row that is active when the
\* step is taken, also when the row was restored by a registration between
\* the selection of the ids and the delete.
C37_NoActiveRowDeleted ==
    [][\A k \in 1..Len(webhooks) :
           webhooks[k].isActive => webhooks[k].id \in IdsOf(webhooks')]_vars


\* the ticks before t left the cache as the startup left it
FirstCrawlingTick(t) ==
    \A s \in 1..(t - 1) : tick[s].outcome \in {"skipped", "empty", "crawl failed"}

\* the nums of the notices tick t handed to processNotificationBatch
DispatchedNums(t) == Range(batches[tick[t].batch].notices)

\* C40: a notice published upstream when the process starts on an empty
\* cache is not dispatched: no batch exists before the startup has ended,
\* and the first tick that crawls dispatches no notice that was published
\* at the start, whether the startup crawl returned the notices, no data
\* or failed.
C40_NoDispatchOfStartupNotices ==
    /\ startup \in {"constructed", "crawling"} =>
           \A b \in BatchIds : batches[b].status = "none"
    /\ \A t \in TickIds :
           tick[t].pc = "waiting" /\ FirstCrawlingTick(t) =>
               DispatchedNums(t) \cap observed.upstream = {}

====
